---- MODULE Spec2Model ----
(***************************************************************************)
(* A model of the concurrency core of skyblock-api:                        *)
(*   - the three TTL caches of src/src/hypixel.ts (fetchElection,          *)
(*     fetchItemList, fetchAuctionItems);                                  *)
(*   - the member leaderboards of the database module (kept in             *)
(*     src/test-data-generator/index.ts): the update queue, the            *)
(*     recentlyUpdated gate, getApplicableAttributes, the upsert and the   *)
(*     patch of cachedRawLeaderboards.                                     *)
(* JavaScript runs one callback at a time; an async function is suspended  *)
(* at every await.  Each action below is one run of a function from one    *)
(* suspension point to the next.                                           *)
(***************************************************************************)
EXTENDS Integers, Sequences, FiniteSets, TLC

VARIABLES
    now,              \* the clock, Date.now()
    isFetching,       \* isFetchingElection, isFetchingItemList, isFetchingAuctionItemList
    cachedData,       \* cachedElectionData, cachedItemListData, cachedAuctionItemListData
    nextUpdate,       \* nextElectionUpdate, nextItemListUpdate, nextAuctionItemListUpdate
    calls,            \* the calls of fetchElection/fetchItemList/fetchAuctionItems
    rounds,           \* history: refreshes that have ended (either way), per cache
    recentlyUpdated,  \* the NodeCache recentlyUpdated: key -> the time its entry expires
    store,            \* the collection member-leaderboards: (uuid, profile) -> stats
    cachedRawLeaderboards,  \* the Map cachedRawLeaderboards: name -> list of items
    tasks,            \* the updates given to queueUpdateDatabaseMember, in order
    loopPc,           \* where periodicallyFetchRecentlyEndedAuctions is suspended
    iterations,       \* history: the iterations of its loop that were started
    previousAuctionIds,           \* previousAuctionIds
    endedAuctions,    \* endedAuctions.auctions of this iteration: auction ids, in order
    endedAgo,         \* Date.now() - endedAuctions.lastUpdated, in seconds
    updatedDatabaseAuctionItems,  \* the Map of this iteration: item id -> auctions
    itemAuctions,     \* the stored item auctions: item id -> auctions
    writes,           \* the updateItemAuction calls of this iteration: item id -> promise
    poolTasks,        \* `tasks`: the promises nobody has popped, as item ids
    workers,          \* the doTasks() calls: the item whose promise each one awaits
    refetchIn,        \* refetchIn of the last finished iteration, in seconds
    pushes,           \* history: the auctions that line 420 has pushed
    jobs,             \* removeBadMemberLeaderboardAttributes and fetchAllLeaderboards:
                      \* where each is suspended, and its local variables
    statName,         \* a stat name given to categorizeStat, isLeaderboardReversed
                      \* or getStatUnit
    statPc,           \* which of them was called with it, if any
    statResult        \* what the call returned

cacheVars == <<isFetching, cachedData, nextUpdate, calls, rounds>>
boardVars == <<recentlyUpdated, store, cachedRawLeaderboards, tasks>>
auctionVars == <<loopPc, iterations, previousAuctionIds, endedAuctions, endedAgo,
                 updatedDatabaseAuctionItems, itemAuctions, writes, poolTasks, workers,
                 refetchIn, pushes>>
janitorVars == <<jobs>>
statVars == <<statName, statPc, statResult>>
restVars == <<auctionVars, janitorVars, statVars>>

(***************************************************************************)
(* Bounds of the model.                                                    *)
(***************************************************************************)
MaxCallers == 3       \* calls of the cache functions in one run
MaxTime == 4          \* ticks of the clock in one run
MaxAge == 1           \* how old (in ticks) an upstream lastUpdated may be
MaxUpdates == 3       \* updates enqueued in one run
leaderboardMax == 2   \* the length of a leaderboard: 100 in the source (line 81)
concurrent == 2       \* the tasks the queue runs at once: 10 in the source (line 321)
historyMax == 2       \* the auctions kept per item: 100 in the source (hypixel.ts 422-423)
poolSize == 1         \* the doTasks() calls of one iteration: 5 in the source (hypixel.ts 445)
MaxSnapshot == 2      \* the auctions of one upstream snapshot
MaxIterations == 3    \* iterations of the auction loop in one run
MaxPasses == 2        \* passes of fetchAllLeaderboards in one run

(***************************************************************************)
(* The caches of hypixel.ts.  One tick of the clock is ten minutes.        *)
(***************************************************************************)
CacheNames == {"election", "itemList", "auctionItems"}
CallerIds == 1..MaxCallers
DataValues == {"d1", "d2"}      \* two different upstream responses
Null == "null"
Undefined == "undefined"

electionTtl == 1          \* 10 * 60 seconds
itemListTtl == 6          \* 60 * 60 seconds
auctionItemListTtl == 1   \* 10 * 60 * 1000 milliseconds
DateZero == 0             \* new Date(0)
StartNow == MaxAge + 1    \* the clock when the process starts: after DateZero

IdleCall ==
    [fn |-> "none", pc |-> "idle", inner |-> FALSE, result |-> Null,
     arrived |-> 0, polled |-> FALSE, fetched |-> FALSE]

\* The cache a call is working on: fetchAuctionItemsUncached calls fetchItemList.
CurCache(k) == IF calls[k].inner THEN "itemList" ELSE calls[k].fn

\* `cachedElectionData && nextElectionUpdate > new Date()`
IsFresh(c) == cachedData[c] # Null /\ nextUpdate[c] > now

\* `isFetchingElection && !cachedElectionData`
MustWait(c) == isFetching[c] /\ cachedData[c] = Null

\* The pc of a call that has set its flag and awaits its refresh.
RefreshPc(c) == IF c = "auctionItems" THEN "ids" ELSE "fetch"

\* fetchAuctionItems after `await fetchAuctionItemsUncached()` returned a list made
\* from item list v (lines 480-486).
AuctionItemsStored(k, v) ==
    /\ isFetching' = [isFetching EXCEPT !["auctionItems"] = FALSE]
    /\ cachedData' = [cachedData EXCEPT !["auctionItems"] = v]
    /\ nextUpdate' = [nextUpdate EXCEPT !["auctionItems"] = now + auctionItemListTtl]
    /\ calls' = [calls EXCEPT ![k].pc = "returned", ![k].inner = FALSE, ![k].result = v]
    /\ rounds' = [rounds EXCEPT !["auctionItems"] = @ + 1]

\* The start of a get on cache c by call k, from the first line of the function to
\* its first await or its return; `rec` is the call's record on entry.
StartGet(k, c, rec) ==
    IF IsFresh(c)
    THEN IF rec.inner
         THEN AuctionItemsStored(k, cachedData[c])
         ELSE /\ calls' = [calls EXCEPT ![k] = [rec EXCEPT !.pc = "returned",
                                                          !.result = cachedData[c]]]
              /\ UNCHANGED <<isFetching, cachedData, nextUpdate, rounds>>
    ELSE IF MustWait(c)
    THEN /\ calls' = [calls EXCEPT ![k] = [rec EXCEPT !.pc = "poll",
                                   !.polled = IF rec.inner THEN rec.polled ELSE TRUE]]
         /\ UNCHANGED <<isFetching, cachedData, nextUpdate, rounds>>
    ELSE /\ isFetching' = [isFetching EXCEPT ![c] = TRUE]
         /\ calls' = [calls EXCEPT ![k] = [rec EXCEPT !.pc = RefreshPc(c),
                                   !.fetched = IF rec.inner THEN rec.fetched ELSE TRUE]]
         /\ UNCHANGED <<cachedData, nextUpdate, rounds>>

\* A caller calls fetchElection(), fetchItemList() or fetchAuctionItems().
Call(k, c) ==
    /\ calls[k].pc = "idle"
    /\ StartGet(k, c, [IdleCall EXCEPT !.fn = c, !.arrived = rounds[c]])
    /\ UNCHANGED <<now, boardVars, restVars>>

\* The 100 ms interval of a waiting call finds the cached value set: the promise
\* resolves and the function goes on below the `if`, setting its flag and
\* starting its own refresh (lines 319-320, 354-355, 478-479).
PollRelease(k) ==
    /\ calls[k].pc = "poll"
    /\ cachedData[CurCache(k)] # Null
    /\ isFetching' = [isFetching EXCEPT ![CurCache(k)] = TRUE]
    /\ calls' = [calls EXCEPT ![k].pc = RefreshPc(CurCache(k)),
                              ![k].fetched = IF calls[k].inner THEN @ ELSE TRUE]
    /\ UNCHANGED <<now, cachedData, nextUpdate, rounds, boardVars, restVars>>

\* sendCleanApiRequest returns the cleaned response v, whose lastUpdated is `age`
\* ticks old.
FetchSucceed(k, v, age) ==
    /\ calls[k].pc = "fetch"
    /\ LET c == CurCache(k)
           ttl == IF c = "election" THEN electionTtl ELSE itemListTtl
       IN IF calls[k].inner
          THEN \* fetchItemList returns into fetchAuctionItemsUncached, which returns
               \* into fetchAuctionItems: both caches are written in this run.
               /\ isFetching' = [isFetching EXCEPT ![c] = FALSE, !["auctionItems"] = FALSE]
               /\ cachedData' = [cachedData EXCEPT ![c] = v, !["auctionItems"] = v]
               /\ nextUpdate' = [nextUpdate EXCEPT ![c] = (now - age) + ttl,
                                      !["auctionItems"] = now + auctionItemListTtl]
               /\ calls' = [calls EXCEPT ![k].pc = "returned", ![k].inner = FALSE,
                                         ![k].result = v]
               /\ rounds' = [rounds EXCEPT ![c] = @ + 1, !["auctionItems"] = @ + 1]
          ELSE /\ isFetching' = [isFetching EXCEPT ![c] = FALSE]
               /\ cachedData' = [cachedData EXCEPT ![c] = v]
               /\ nextUpdate' = [nextUpdate EXCEPT ![c] = (now - age) + ttl]
               /\ calls' = [calls EXCEPT ![k].pc = "returned", ![k].result = v]
               /\ rounds' = [rounds EXCEPT ![c] = @ + 1]
    /\ UNCHANGED <<now, boardVars, restVars>>

\* sendCleanApiRequest throws (`No data returned from ...`, or the request fails),
\* or fetchItemsAuctionsIds does: the exception leaves fetchElection/fetchItemList
\* at line 320/355, and fetchAuctionItems at line 479.
FetchFail(k) ==
    /\ calls[k].pc \in {"fetch", "ids"}
    /\ calls' = [calls EXCEPT ![k].pc = "threw", ![k].inner = FALSE]
    /\ rounds' = [rounds EXCEPT ![CurCache(k)] = @ + 1,
                                ![calls[k].fn] = IF calls[k].inner THEN @ + 1 ELSE @]
    /\ UNCHANGED <<now, isFetching, cachedData, nextUpdate, boardVars, restVars>>

\* fetchAuctionItemsUncached: `await fetchItemsAuctionsIds()` returns the ids and
\* fetchItemList() is called (lines 490-492).
IdsReturn(k) ==
    /\ calls[k].pc = "ids"
    /\ StartGet(k, "itemList", [calls[k] EXCEPT !.inner = TRUE])
    /\ UNCHANGED <<now, boardVars, restVars>>

\* fetchItemsAuctionsIds() returns nothing: fetchAuctionItemsUncached returns
\* undefined and fetchAuctionItems clears its flag and returns undefined (line 481).
IdsMissing(k) ==
    /\ calls[k].pc = "ids"
    /\ isFetching' = [isFetching EXCEPT !["auctionItems"] = FALSE]
    /\ calls' = [calls EXCEPT ![k].pc = "returned", ![k].result = Undefined]
    /\ rounds' = [rounds EXCEPT !["auctionItems"] = @ + 1]
    /\ UNCHANGED <<now, cachedData, nextUpdate, boardVars, restVars>>

\* Time passes.
Tick ==
    /\ now < StartNow + MaxTime
    /\ now' = now + 1
    /\ UNCHANGED <<cacheVars, boardVars, restVars>>

(***************************************************************************)
(* The member leaderboards (src/test-data-generator/index.ts, lines 45 on).*)
(* In SpecBoard and SpecQueue one tick of the clock is one minute.         *)
(***************************************************************************)
stdTTL == 3               \* stdTTL: 60 * 3 seconds

\* Leaderboard names are JavaScript strings; the matchers look at their characters.
LeaderboardNames == {"kills_zombie", "first_join"}
Chars(str) ==
    CASE str = "kills_zombie" -> <<"k", "i", "l", "l", "s", "_", "z", "o", "m", "b", "i", "e">>
      [] str = "first_join" -> <<"f", "i", "r", "s", "t", "_", "j", "o", "i", "n">>
      [] str = "_best_time" -> <<"_", "b", "e", "s", "t", "_", "t", "i", "m", "e">>
      [] str = "_best_time_2" -> <<"_", "b", "e", "s", "t", "_", "t", "i", "m", "e", "_", "2">>
      [] str = "deaths_" -> <<"d", "e", "a", "t", "h", "s", "_">>
      [] str = "deaths" -> <<"d", "e", "a", "t", "h", "s">>
      [] str = "kills_" -> <<"k", "i", "l", "l", "s", "_">>
      [] str = "kills" -> <<"k", "i", "l", "l", "s">>
      [] str = "items_fished_" -> <<"i", "t", "e", "m", "s", "_", "f", "i", "s", "h", "e", "d", "_">>
      [] str = "items_fished" -> <<"i", "t", "e", "m", "s", "_", "f", "i", "s", "h", "e", "d">>
      [] str = "shredder_" -> <<"s", "h", "r", "e", "d", "d", "e", "r", "_">>
      [] str = "auctions_" -> <<"a", "u", "c", "t", "i", "o", "n", "s", "_">>
      [] str = "mythos_burrows_" -> <<"m", "y", "t", "h", "o", "s", "_", "b", "u", "r", "r", "o", "w", "s", "_">>
      [] str = "mythos_kills" -> <<"m", "y", "t", "h", "o", "s", "_", "k", "i", "l", "l", "s">>
      [] str = "farming_contests_" -> <<"f", "a", "r", "m", "i", "n", "g", "_", "c", "o", "n", "t", "e", "s", "t", "s", "_">>
      [] str = "collection_" -> <<"c", "o", "l", "l", "e", "c", "t", "i", "o", "n", "_">>
      [] str = "skill_" -> <<"s", "k", "i", "l", "l", "_">>
      [] str = "slayer_" -> <<"s", "l", "a", "y", "e", "r", "_">>
      [] str = "harp_" -> <<"h", "a", "r", "p", "_">>
      [] str = "fastest_coop_join" -> <<"f", "a", "s", "t", "e", "s", "t", "_", "c", "o", "o", "p", "_", "j", "o", "i", "n">>
      [] str = "slowest_coop_join" -> <<"s", "l", "o", "w", "e", "s", "t", "_", "c", "o", "o", "p", "_", "j", "o", "i", "n">>
      [] str = "last_save" -> <<"l", "a", "s", "t", "_", "s", "a", "v", "e">>
      [] str = "purse" -> <<"p", "u", "r", "s", "e">>
      [] str = "leaderboards_count" -> <<"l", "e", "a", "d", "e", "r", "b", "o", "a", "r", "d", "s", "_", "c", "o", "u", "n", "t">>
      [] str = "top_1_leaderboards_count" -> <<"t", "o", "p", "_", "1", "_", "l", "e", "a", "d", "e", "r", "b", "o", "a", "r", "d", "s", "_", "c", "o", "u", "n", "t">>
      [] str = "void" -> <<"v", "o", "i", "d">>
      [] str = "zombie" -> <<"z", "o", "m", "b", "i", "e">>
      [] str = "wheat" -> <<"w", "h", "e", "a", "t">>
      [] str = "stat" -> <<"s", "t", "a", "t">>
      [] str = "deaths_void" -> <<"d", "e", "a", "t", "h", "s", "_", "v", "o", "i", "d">>
      [] str = "deaths_zombie" -> <<"d", "e", "a", "t", "h", "s", "_", "z", "o", "m", "b", "i", "e">>
      [] str = "deaths_wheat" -> <<"d", "e", "a", "t", "h", "s", "_", "w", "h", "e", "a", "t">>
      [] str = "deaths_stat" -> <<"d", "e", "a", "t", "h", "s", "_", "s", "t", "a", "t">>
      [] str = "deaths__best_time" -> <<"d", "e", "a", "t", "h", "s", "_", "_", "b", "e", "s", "t", "_", "t", "i", "m", "e">>
      [] str = "deaths__best_time_2" -> <<"d", "e", "a", "t", "h", "s", "_", "_", "b", "e", "s", "t", "_", "t", "i", "m", "e", "_", "2">>
      [] str = "deaths_first_join" -> <<"d", "e", "a", "t", "h", "s", "_", "f", "i", "r", "s", "t", "_", "j", "o", "i", "n">>
      [] str = "deaths_deaths_" -> <<"d", "e", "a", "t", "h", "s", "_", "d", "e", "a", "t", "h", "s", "_">>
      [] str = "deaths_purse" -> <<"d", "e", "a", "t", "h", "s", "_", "p", "u", "r", "s", "e">>
      [] str = "deathsvoid" -> <<"d", "e", "a", "t", "h", "s", "v", "o", "i", "d">>
      [] str = "deathszombie" -> <<"d", "e", "a", "t", "h", "s", "z", "o", "m", "b", "i", "e">>
      [] str = "deathswheat" -> <<"d", "e", "a", "t", "h", "s", "w", "h", "e", "a", "t">>
      [] str = "deathsstat" -> <<"d", "e", "a", "t", "h", "s", "s", "t", "a", "t">>
      [] str = "deaths_best_time" -> <<"d", "e", "a", "t", "h", "s", "_", "b", "e", "s", "t", "_", "t", "i", "m", "e">>
      [] str = "deaths_best_time_2" -> <<"d", "e", "a", "t", "h", "s", "_", "b", "e", "s", "t", "_", "t", "i", "m", "e", "_", "2">>
      [] str = "deathsfirst_join" -> <<"d", "e", "a", "t", "h", "s", "f", "i", "r", "s", "t", "_", "j", "o", "i", "n">>
      [] str = "deathsdeaths_" -> <<"d", "e", "a", "t", "h", "s", "d", "e", "a", "t", "h", "s", "_">>
      [] str = "deathspurse" -> <<"d", "e", "a", "t", "h", "s", "p", "u", "r", "s", "e">>
      [] str = "kills_void" -> <<"k", "i", "l", "l", "s", "_", "v", "o", "i", "d">>
      [] str = "kills_wheat" -> <<"k", "i", "l", "l", "s", "_", "w", "h", "e", "a", "t">>
      [] str = "kills_stat" -> <<"k", "i", "l", "l", "s", "_", "s", "t", "a", "t">>
      [] str = "kills__best_time" -> <<"k", "i", "l", "l", "s", "_", "_", "b", "e", "s", "t", "_", "t", "i", "m", "e">>
      [] str = "kills__best_time_2" -> <<"k", "i", "l", "l", "s", "_", "_", "b", "e", "s", "t", "_", "t", "i", "m", "e", "_", "2">>
      [] str = "kills_first_join" -> <<"k", "i", "l", "l", "s", "_", "f", "i", "r", "s", "t", "_", "j", "o", "i", "n">>
      [] str = "kills_deaths_" -> <<"k", "i", "l", "l", "s", "_", "d", "e", "a", "t", "h", "s", "_">>
      [] str = "kills_purse" -> <<"k", "i", "l", "l", "s", "_", "p", "u", "r", "s", "e">>
      [] str = "killsvoid" -> <<"k", "i", "l", "l", "s", "v", "o", "i", "d">>
      [] str = "killszombie" -> <<"k", "i", "l", "l", "s", "z", "o", "m", "b", "i", "e">>
      [] str = "killswheat" -> <<"k", "i", "l", "l", "s", "w", "h", "e", "a", "t">>
      [] str = "killsstat" -> <<"k", "i", "l", "l", "s", "s", "t", "a", "t">>
      [] str = "kills_best_time" -> <<"k", "i", "l", "l", "s", "_", "b", "e", "s", "t", "_", "t", "i", "m", "e">>
      [] str = "kills_best_time_2" -> <<"k", "i", "l", "l", "s", "_", "b", "e", "s", "t", "_", "t", "i", "m", "e", "_", "2">>
      [] str = "killsfirst_join" -> <<"k", "i", "l", "l", "s", "f", "i", "r", "s", "t", "_", "j", "o", "i", "n">>
      [] str = "killsdeaths_" -> <<"k", "i", "l", "l", "s", "d", "e", "a", "t", "h", "s", "_">>
      [] str = "killspurse" -> <<"k", "i", "l", "l", "s", "p", "u", "r", "s", "e">>
      [] str = "items_fished_void" -> <<"i", "t", "e", "m", "s", "_", "f", "i", "s", "h", "e", "d", "_", "v", "o", "i", "d">>
      [] str = "items_fished_zombie" -> <<"i", "t", "e", "m", "s", "_", "f", "i", "s", "h", "e", "d", "_", "z", "o", "m", "b", "i", "e">>
      [] str = "items_fished_wheat" -> <<"i", "t", "e", "m", "s", "_", "f", "i", "s", "h", "e", "d", "_", "w", "h", "e", "a", "t">>
      [] str = "items_fished_stat" -> <<"i", "t", "e", "m", "s", "_", "f", "i", "s", "h", "e", "d", "_", "s", "t", "a", "t">>
      [] str = "items_fished__best_time" -> <<"i", "t", "e", "m", "s", "_", "f", "i", "s", "h", "e", "d", "_", "_", "b", "e", "s", "t", "_", "t", "i", "m", "e">>
      [] str = "items_fished__best_time_2" -> <<"i", "t", "e", "m", "s", "_", "f", "i", "s", "h", "e", "d", "_", "_", "b", "e", "s", "t", "_", "t", "i", "m", "e", "_", "2">>
      [] str = "items_fished_first_join" -> <<"i", "t", "e", "m", "s", "_", "f", "i", "s", "h", "e", "d", "_", "f", "i", "r", "s", "t", "_", "j", "o", "i", "n">>
      [] str = "items_fished_deaths_" -> <<"i", "t", "e", "m", "s", "_", "f", "i", "s", "h", "e", "d", "_", "d", "e", "a", "t", "h", "s", "_">>
      [] str = "items_fished_purse" -> <<"i", "t", "e", "m", "s", "_", "f", "i", "s", "h", "e", "d", "_", "p", "u", "r", "s", "e">>
      [] str = "shredder_void" -> <<"s", "h", "r", "e", "d", "d", "e", "r", "_", "v", "o", "i", "d">>
      [] str = "shredder_zombie" -> <<"s", "h", "r", "e", "d", "d", "e", "r", "_", "z", "o", "m", "b", "i", "e">>
      [] str = "shredder_wheat" -> <<"s", "h", "r", "e", "d", "d", "e", "r", "_", "w", "h", "e", "a", "t">>
      [] str = "shredder_stat" -> <<"s", "h", "r", "e", "d", "d", "e", "r", "_", "s", "t", "a", "t">>
      [] str = "shredder__best_time" -> <<"s", "h", "r", "e", "d", "d", "e", "r", "_", "_", "b", "e", "s", "t", "_", "t", "i", "m", "e">>
      [] str = "shredder__best_time_2" -> <<"s", "h", "r", "e", "d", "d", "e", "r", "_", "_", "b", "e", "s", "t", "_", "t", "i", "m", "e", "_", "2">>
      [] str = "shredder_first_join" -> <<"s", "h", "r", "e", "d", "d", "e", "r", "_", "f", "i", "r", "s", "t", "_", "j", "o", "i", "n">>
      [] str = "shredder_deaths_" -> <<"s", "h", "r", "e", "d", "d", "e", "r", "_", "d", "e", "a", "t", "h", "s", "_">>
      [] str = "shredder_purse" -> <<"s", "h", "r", "e", "d", "d", "e", "r", "_", "p", "u", "r", "s", "e">>
      [] str = "mythos_killsvoid" -> <<"m", "y", "t", "h", "o", "s", "_", "k", "i", "l", "l", "s", "v", "o", "i", "d">>
      [] str = "mythos_killszombie" -> <<"m", "y", "t", "h", "o", "s", "_", "k", "i", "l", "l", "s", "z", "o", "m", "b", "i", "e">>
      [] str = "mythos_killswheat" -> <<"m", "y", "t", "h", "o", "s", "_", "k", "i", "l", "l", "s", "w", "h", "e", "a", "t">>
      [] str = "mythos_killsstat" -> <<"m", "y", "t", "h", "o", "s", "_", "k", "i", "l", "l", "s", "s", "t", "a", "t">>
      [] str = "mythos_kills_best_time" -> <<"m", "y", "t", "h", "o", "s", "_", "k", "i", "l", "l", "s", "_", "b", "e", "s", "t", "_", "t", "i", "m", "e">>
      [] str = "mythos_kills_best_time_2" -> <<"m", "y", "t", "h", "o", "s", "_", "k", "i", "l", "l", "s", "_", "b", "e", "s", "t", "_", "t", "i", "m", "e", "_", "2">>
      [] str = "mythos_killsfirst_join" -> <<"m", "y", "t", "h", "o", "s", "_", "k", "i", "l", "l", "s", "f", "i", "r", "s", "t", "_", "j", "o", "i", "n">>
      [] str = "mythos_killsdeaths_" -> <<"m", "y", "t", "h", "o", "s", "_", "k", "i", "l", "l", "s", "d", "e", "a", "t", "h", "s", "_">>
      [] str = "mythos_killspurse" -> <<"m", "y", "t", "h", "o", "s", "_", "k", "i", "l", "l", "s", "p", "u", "r", "s", "e">>
      [] str = "collection_void" -> <<"c", "o", "l", "l", "e", "c", "t", "i", "o", "n", "_", "v", "o", "i", "d">>
      [] str = "collection_zombie" -> <<"c", "o", "l", "l", "e", "c", "t", "i", "o", "n", "_", "z", "o", "m", "b", "i", "e">>
      [] str = "collection_wheat" -> <<"c", "o", "l", "l", "e", "c", "t", "i", "o", "n", "_", "w", "h", "e", "a", "t">>
      [] str = "collection_stat" -> <<"c", "o", "l", "l", "e", "c", "t", "i", "o", "n", "_", "s", "t", "a", "t">>
      [] str = "collection__best_time" -> <<"c", "o", "l", "l", "e", "c", "t", "i", "o", "n", "_", "_", "b", "e", "s", "t", "_", "t", "i", "m", "e">>
      [] str = "collection__best_time_2" -> <<"c", "o", "l", "l", "e", "c", "t", "i", "o", "n", "_", "_", "b", "e", "s", "t", "_", "t", "i", "m", "e", "_", "2">>
      [] str = "collection_first_join" -> <<"c", "o", "l", "l", "e", "c", "t", "i", "o", "n", "_", "f", "i", "r", "s", "t", "_", "j", "o", "i", "n">>
      [] str = "collection_deaths_" -> <<"c", "o", "l", "l", "e", "c", "t", "i", "o", "n", "_", "d", "e", "a", "t", "h", "s", "_">>
      [] str = "collection_purse" -> <<"c", "o", "l", "l", "e", "c", "t", "i", "o", "n", "_", "p", "u", "r", "s", "e">>
      [] str = "skill_void" -> <<"s", "k", "i", "l", "l", "_", "v", "o", "i", "d">>
      [] str = "skill_zombie" -> <<"s", "k", "i", "l", "l", "_", "z", "o", "m", "b", "i", "e">>
      [] str = "skill_wheat" -> <<"s", "k", "i", "l", "l", "_", "w", "h", "e", "a", "t">>
      [] str = "skill_stat" -> <<"s", "k", "i", "l", "l", "_", "s", "t", "a", "t">>
      [] str = "skill__best_time" -> <<"s", "k", "i", "l", "l", "_", "_", "b", "e", "s", "t", "_", "t", "i", "m", "e">>
      [] str = "skill__best_time_2" -> <<"s", "k", "i", "l", "l", "_", "_", "b", "e", "s", "t", "_", "t", "i", "m", "e", "_", "2">>
      [] str = "skill_first_join" -> <<"s", "k", "i", "l", "l", "_", "f", "i", "r", "s", "t", "_", "j", "o", "i", "n">>
      [] str = "skill_deaths_" -> <<"s", "k", "i", "l", "l", "_", "d", "e", "a", "t", "h", "s", "_">>
      [] str = "skill_purse" -> <<"s", "k", "i", "l", "l", "_", "p", "u", "r", "s", "e">>
      [] str = "totally_unknown_" -> <<"t", "o", "t", "a", "l", "l", "y", "_", "u", "n", "k", "n", "o", "w", "n", "_">>
      [] str = "totally_unknown_void" -> <<"t", "o", "t", "a", "l", "l", "y", "_", "u", "n", "k", "n", "o", "w", "n", "_", "v", "o", "i", "d">>
      [] str = "totally_unknown_zombie" -> <<"t", "o", "t", "a", "l", "l", "y", "_", "u", "n", "k", "n", "o", "w", "n", "_", "z", "o", "m", "b", "i", "e">>
      [] str = "totally_unknown_wheat" -> <<"t", "o", "t", "a", "l", "l", "y", "_", "u", "n", "k", "n", "o", "w", "n", "_", "w", "h", "e", "a", "t">>
      [] str = "totally_unknown_stat" -> <<"t", "o", "t", "a", "l", "l", "y", "_", "u", "n", "k", "n", "o", "w", "n", "_", "s", "t", "a", "t">>
      [] str = "totally_unknown__best_time" -> <<"t", "o", "t", "a", "l", "l", "y", "_", "u", "n", "k", "n", "o", "w", "n", "_", "_", "b", "e", "s", "t", "_", "t", "i", "m", "e">>
      [] str = "totally_unknown__best_time_2" -> <<"t", "o", "t", "a", "l", "l", "y", "_", "u", "n", "k", "n", "o", "w", "n", "_", "_", "b", "e", "s", "t", "_", "t", "i", "m", "e", "_", "2">>
      [] str = "totally_unknown_first_join" -> <<"t", "o", "t", "a", "l", "l", "y", "_", "u", "n", "k", "n", "o", "w", "n", "_", "f", "i", "r", "s", "t", "_", "j", "o", "i", "n">>
      [] str = "totally_unknown_deaths_" -> <<"t", "o", "t", "a", "l", "l", "y", "_", "u", "n", "k", "n", "o", "w", "n", "_", "d", "e", "a", "t", "h", "s", "_">>
      [] str = "totally_unknown_purse" -> <<"t", "o", "t", "a", "l", "l", "y", "_", "u", "n", "k", "n", "o", "w", "n", "_", "p", "u", "r", "s", "e">>
      [] str = "dragon" -> <<"d", "r", "a", "g", "o", "n">>
      [] str = "dragonvoid" -> <<"d", "r", "a", "g", "o", "n", "v", "o", "i", "d">>
      [] str = "dragonzombie" -> <<"d", "r", "a", "g", "o", "n", "z", "o", "m", "b", "i", "e">>
      [] str = "dragonwheat" -> <<"d", "r", "a", "g", "o", "n", "w", "h", "e", "a", "t">>
      [] str = "dragonstat" -> <<"d", "r", "a", "g", "o", "n", "s", "t", "a", "t">>
      [] str = "dragon_best_time" -> <<"d", "r", "a", "g", "o", "n", "_", "b", "e", "s", "t", "_", "t", "i", "m", "e">>
      [] str = "dragon_best_time_2" -> <<"d", "r", "a", "g", "o", "n", "_", "b", "e", "s", "t", "_", "t", "i", "m", "e", "_", "2">>
      [] str = "dragonfirst_join" -> <<"d", "r", "a", "g", "o", "n", "f", "i", "r", "s", "t", "_", "j", "o", "i", "n">>
      [] str = "dragondeaths_" -> <<"d", "r", "a", "g", "o", "n", "d", "e", "a", "t", "h", "s", "_">>
      [] str = "dragonpurse" -> <<"d", "r", "a", "g", "o", "n", "p", "u", "r", "s", "e">>
      [] str = "first_joinvoid" -> <<"f", "i", "r", "s", "t", "_", "j", "o", "i", "n", "v", "o", "i", "d">>
      [] str = "first_joinzombie" -> <<"f", "i", "r", "s", "t", "_", "j", "o", "i", "n", "z", "o", "m", "b", "i", "e">>
      [] str = "first_joinwheat" -> <<"f", "i", "r", "s", "t", "_", "j", "o", "i", "n", "w", "h", "e", "a", "t">>
      [] str = "first_joinstat" -> <<"f", "i", "r", "s", "t", "_", "j", "o", "i", "n", "s", "t", "a", "t">>
      [] str = "first_join_best_time" -> <<"f", "i", "r", "s", "t", "_", "j", "o", "i", "n", "_", "b", "e", "s", "t", "_", "t", "i", "m", "e">>
      [] str = "first_join_best_time_2" -> <<"f", "i", "r", "s", "t", "_", "j", "o", "i", "n", "_", "b", "e", "s", "t", "_", "t", "i", "m", "e", "_", "2">>
      [] str = "first_joinfirst_join" -> <<"f", "i", "r", "s", "t", "_", "j", "o", "i", "n", "f", "i", "r", "s", "t", "_", "j", "o", "i", "n">>
      [] str = "first_joindeaths_" -> <<"f", "i", "r", "s", "t", "_", "j", "o", "i", "n", "d", "e", "a", "t", "h", "s", "_">>
      [] str = "first_joinpurse" -> <<"f", "i", "r", "s", "t", "_", "j", "o", "i", "n", "p", "u", "r", "s", "e">>
      [] str = "my_" -> <<"m", "y", "_">>
      [] str = "my_void" -> <<"m", "y", "_", "v", "o", "i", "d">>
      [] str = "my_zombie" -> <<"m", "y", "_", "z", "o", "m", "b", "i", "e">>
      [] str = "my_wheat" -> <<"m", "y", "_", "w", "h", "e", "a", "t">>
      [] str = "my_stat" -> <<"m", "y", "_", "s", "t", "a", "t">>
      [] str = "my__best_time" -> <<"m", "y", "_", "_", "b", "e", "s", "t", "_", "t", "i", "m", "e">>
      [] str = "my__best_time_2" -> <<"m", "y", "_", "_", "b", "e", "s", "t", "_", "t", "i", "m", "e", "_", "2">>
      [] str = "my_first_join" -> <<"m", "y", "_", "f", "i", "r", "s", "t", "_", "j", "o", "i", "n">>
      [] str = "my_deaths_" -> <<"m", "y", "_", "d", "e", "a", "t", "h", "s", "_">>
      [] str = "my_purse" -> <<"m", "y", "_", "p", "u", "r", "s", "e">>
      [] str = "_best_time_" -> <<"_", "b", "e", "s", "t", "_", "t", "i", "m", "e", "_">>
      [] str = "_best_time_void" -> <<"_", "b", "e", "s", "t", "_", "t", "i", "m", "e", "_", "v", "o", "i", "d">>
      [] str = "_best_time_zombie" -> <<"_", "b", "e", "s", "t", "_", "t", "i", "m", "e", "_", "z", "o", "m", "b", "i", "e">>
      [] str = "_best_time_wheat" -> <<"_", "b", "e", "s", "t", "_", "t", "i", "m", "e", "_", "w", "h", "e", "a", "t">>
      [] str = "_best_time_stat" -> <<"_", "b", "e", "s", "t", "_", "t", "i", "m", "e", "_", "s", "t", "a", "t">>
      [] str = "_best_time__best_time" -> <<"_", "b", "e", "s", "t", "_", "t", "i", "m", "e", "_", "_", "b", "e", "s", "t", "_", "t", "i", "m", "e">>
      [] str = "_best_time__best_time_2" -> <<"_", "b", "e", "s", "t", "_", "t", "i", "m", "e", "_", "_", "b", "e", "s", "t", "_", "t", "i", "m", "e", "_", "2">>
      [] str = "_best_time_first_join" -> <<"_", "b", "e", "s", "t", "_", "t", "i", "m", "e", "_", "f", "i", "r", "s", "t", "_", "j", "o", "i", "n">>
      [] str = "_best_time_deaths_" -> <<"_", "b", "e", "s", "t", "_", "t", "i", "m", "e", "_", "d", "e", "a", "t", "h", "s", "_">>
      [] str = "_best_time_purse" -> <<"_", "b", "e", "s", "t", "_", "t", "i", "m", "e", "_", "p", "u", "r", "s", "e">>

reversedLeaderboards == <<"first_join", "_best_time", "_best_time_2">>

StartsWith(s, m) == Len(m) <= Len(s) /\ SubSeq(s, 1, Len(m)) = m
EndsWith(s, m) == Len(m) <= Len(s) /\ SubSeq(s, Len(s) - Len(m) + 1, Len(s)) = m

\* The matchers with the two tests exchanged: a matcher that begins with '_' is
\* looked for at the start of the name, one that ends with '_' at its end.
isLeaderboardReversedSwapped(name) ==
    \E x \in 1..Len(reversedLeaderboards) :
        LET leaderboardMatch == Chars(reversedLeaderboards[x])
            trailingEnd == leaderboardMatch[1] = "_"
            trailingStart == leaderboardMatch[Len(leaderboardMatch)] = "_"
        IN \/ trailingEnd /\ StartsWith(Chars(name), leaderboardMatch)
           \/ trailingStart /\ EndsWith(Chars(name), leaderboardMatch)
           \/ Chars(name) = leaderboardMatch

isLeaderboardReversed(name) ==
    \E x \in 1..Len(reversedLeaderboards) :
        LET leaderboardMatch == Chars(reversedLeaderboards[x])
            trailingEnd == leaderboardMatch[1] = "_"
            trailingStart == leaderboardMatch[Len(leaderboardMatch)] = "_"
        IN \/ trailingStart /\ StartsWith(Chars(name), leaderboardMatch)
           \/ trailingEnd /\ EndsWith(Chars(name), leaderboardMatch)
           \/ Chars(name) = leaderboardMatch

\* The members whose profiles are fetched: (member uuid, profile uuid).  Player B
\* is a member of two profiles.
MemberKeys == {<<"A", "X">>, <<"B", "X">>, <<"B", "Y">>}
Values == {-1, 0, 1}

\* Object.entries() of a member's leaderboard attributes: the raw stats come
\* before first_join (getMemberLeaderboardAttributes, lines 125-141).
AttrOrder == <<"kills_zombie", "first_join">>
InAttrs(f, n) == n \in DOMAIN f
AttrSeq(f) == SelectSeq(AttrOrder, LAMBDA n : InAttrs(f, n))

Empty == <<>>
NoTask ==
    [pc |-> "none", uuid |-> "", profile |-> "", attrs |-> Empty, i |-> 0,
     applicable |-> Empty, seen |-> Empty, start |-> 0]
TaskIds == 1..MaxUpdates

\* The tasks the queue has started and that have not ended.
RunningPcs == {"addStats", "reqHit", "reqQuery", "reqReply", "upsertSent",
               "upsertApplied", "rawHit", "rawQuery", "rawReply"}
Running == {t \in TaskIds : tasks[t].pc \in RunningPcs}
Queued == {t \in TaskIds : tasks[t].pc = "queued"}
Enqueued == {t \in TaskIds : tasks[t].pc # "none"}

\* A leaderboard item is {uuid, stats, last_updated}; only stats[name] of an item
\* of leaderboard `name` is ever read, and it is kept as `value`.  `profile` is the
\* profile a stored document belongs to; an item made by updateDatabaseMember has
\* no such field, and the model keeps the profile of the update there as history.
Item(uuid, profile, value) == [uuid |-> uuid, profile |-> profile, value |-> value]

\* a comes before b in a leaderboard sorted in its direction
Before(a, b, reversed) == IF reversed THEN a < b ELSE a > b

IsSorted(list, reversed) ==
    \A x \in 1..Len(list) - 1 : ~Before(list[x + 1].value, list[x].value, reversed)

\* Array.prototype.sort with the comparator of line 312: a stable sort.
RECURSIVE InsertItem(_, _, _)
InsertItem(sorted, item, reversed) ==
    IF sorted = <<>> THEN <<item>>
    ELSE IF Before(item.value, Head(sorted).value, reversed)
         THEN <<item>> \o sorted
         ELSE <<Head(sorted)>> \o InsertItem(Tail(sorted), item, reversed)

RECURSIVE SortItems(_, _)
SortItems(list, reversed) ==
    IF list = <<>> THEN <<>>
    ELSE InsertItem(SortItems(SubSeq(list, 1, Len(list) - 1), reversed),
                    list[Len(list)], reversed)

\* Array.prototype.slice(0, n)
SliceTo(list, n) == SubSeq(list, 1, IF Len(list) < n THEN Len(list) ELSE n)

\* find({stats.name: {$exists: true}}).sort({stats.name: 1 or -1}).limit(leaderboardMax)
\* on store st (line 222): the order among equal values is the store's choice.
FindResults(st, name) ==
    LET docs == {k \in DOMAIN st : name \in DOMAIN st[k]}
        m == IF Cardinality(docs) < leaderboardMax THEN Cardinality(docs) ELSE leaderboardMax
        reversed == isLeaderboardReversed(name)
        asItems(l) == [x \in 1..m |-> Item(l[x][1], l[x][2], st[l[x]][name])]
    IN {asItems(l) : l \in
          {l \in [1..m -> docs] :
              /\ \A x, y \in 1..m : x # y => l[x] # l[y]
              /\ IsSorted(asItems(l), reversed)
              /\ \A k \in docs : (\A x \in 1..m : l[x] # k)
                    => \A x \in 1..m : ~Before(st[k][name], st[l[x]][name], reversed)}}

\* getMemberLeaderboardRequirement on the list fetchMemberLeaderboardRaw returned:
\* <<v>> for the value v of the last place of a full leaderboard, <<>> for null.
getMemberLeaderboardRequirement(leaderboard) ==
    IF Len(leaderboard) >= leaderboardMax
    THEN <<leaderboard[leaderboardMax].value>>
    ELSE <<>>

\* JavaScript: `!requirement` is true of null and of 0; in `<` and `>` null is 0.
IsFalsy(requirement) == requirement = <<>> \/ requirement[1] = 0
ToNumber(requirement) == IF requirement = <<>> THEN 0 ELSE requirement[1]

\* The test of line 263, as JavaScript parses it: `||` binds tighter than `?:`, so
\* the condition of the conditional is `!requirement || leaderboardReversed`.
IsApplicable(attributeValue, requirement, leaderboardReversed) ==
    IF IsFalsy(requirement) \/ leaderboardReversed
    THEN attributeValue < ToNumber(requirement)
    ELSE attributeValue > ToNumber(requirement)

\* A faulty variant of the patch of lines 304-313: the new list is not cut.
PatchedLeaderboardUncut(existing, uuid, profile, value, name) ==
    SortItems(Append(SelectSeq(existing, LAMBDA item : item.uuid # uuid),
                     Item(uuid, profile, value)),
              isLeaderboardReversed(name))

\* The new list of lines 304-313 for leaderboard `name`, from the list `existing`.
sliceLength == leaderboardMax     \* `.slice(0, 100)`, line 313
PatchedLeaderboard(existing, uuid, profile, value, name) ==
    LET kept == SelectSeq(existing, LAMBDA item : item.uuid # uuid)
    IN SliceTo(SortItems(Append(kept, Item(uuid, profile, value)),
                         isLeaderboardReversed(name)), sliceLength)

\* updateOne({uuid, profile}, {$set: {stats}}, {upsert: true}), lines 287-299
Upserted(st, key, stats) == [k \in DOMAIN st \cup {key} |-> IF k = key THEN stats ELSE st[k]]

\* Map.prototype.set
MapSet(map, key, value) == [k \in DOMAIN map \cup {key} |-> IF k = key THEN value ELSE map[k]]

\* A faulty variant of the gate's read: an entry never expires.
IsRecentlyUpdatedForever(key) == key \in DOMAIN recentlyUpdated

\* A faulty variant of the gate's read: the entry is not seen.
IsRecentlyUpdatedNever(key) == FALSE

\* recentlyUpdated.get(key): the entry, unless it is missing or has expired
\* (node-cache drops an entry whose time is before Date.now()).
IsRecentlyUpdated(key) == key \in DOMAIN recentlyUpdated /\ ~(recentlyUpdated[key] < now)

\* A task's record when it ends.
Ended(rec, how) == [NoTask EXCEPT !.pc = how, !.uuid = rec.uuid, !.profile = rec.profile,
                                  !.start = rec.start]

\* getApplicableAttributes calls getMemberLeaderboardRequirement for its attribute
\* number i, which calls fetchMemberLeaderboardRaw: the cached list is returned
\* (line 214) or the store is queried (line 222).  After the last attribute
\* updateOne is sent (line 287).
NextRequirement(rec, i, cache) ==
    LET names == AttrSeq(rec.attrs)
    IN IF i > Len(names)
       THEN [rec EXCEPT !.pc = "upsertSent", !.i = 0, !.seen = Empty]
       ELSE IF names[i] \in DOMAIN cache
            THEN [rec EXCEPT !.pc = "reqHit", !.i = i, !.seen = cache[names[i]]]
            ELSE [rec EXCEPT !.pc = "reqQuery", !.i = i, !.seen = Empty]

\* The loop of lines 301-315 calls fetchMemberLeaderboardRaw for the applicable
\* attribute number i; after the last one the update has ended.
NextPatch(rec, i, cache) ==
    LET names == AttrSeq(rec.applicable)
    IN IF i > Len(names)
       THEN Ended(rec, "done")
       ELSE IF names[i] \in DOMAIN cache
            THEN [rec EXCEPT !.pc = "rawHit", !.i = i, !.seen = cache[names[i]]]
            ELSE [rec EXCEPT !.pc = "rawQuery", !.i = i, !.seen = Empty]

\* The leaderboard a task is fetching.
CurName(rec) ==
    IF rec.pc \in {"reqHit", "reqQuery", "reqReply"}
    THEN AttrSeq(rec.attrs)[rec.i]
    ELSE AttrSeq(rec.applicable)[rec.i]

\* A faulty variant of queueUpdateDatabaseMember: updateDatabaseMember is called
\* at once, past the queue and its gate on the number of running tasks.
EnqueueDirect(uuid, profile, attrs) ==
    /\ Cardinality(Enqueued) < MaxUpdates
    /\ tasks' = [tasks EXCEPT ![Cardinality(Enqueued) + 1] =
                    [NoTask EXCEPT !.pc = "addStats", !.uuid = uuid, !.profile = profile,
                                   !.attrs = attrs, !.start = now]]
    /\ recentlyUpdated' = MapSet(recentlyUpdated, <<profile, uuid>>, now + stdTTL)
    /\ UNCHANGED <<now, store, cachedRawLeaderboards, cacheVars, restVars>>

\* queueUpdateDatabaseMember(member, profile): the task is put on the queue.
Enqueue(uuid, profile, attrs) ==
    /\ Cardinality(Enqueued) < MaxUpdates
    /\ tasks' = [tasks EXCEPT ![Cardinality(Enqueued) + 1] =
                    [NoTask EXCEPT !.pc = "queued", !.uuid = uuid, !.profile = profile,
                                   !.attrs = attrs]]
    /\ UNCHANGED <<now, recentlyUpdated, store, cachedRawLeaderboards, cacheVars, restVars>>

\* The queue (queue-promise, concurrent: 10) starts a task only while fewer than
\* `concurrent` of its tasks are running.
QueueHasRoom == Cardinality(Running) < concurrent

\* The queue starts its oldest task, which runs updateDatabaseMember to its first
\* await (lines 270-280): the update is dropped when its key is in recentlyUpdated,
\* else the key is put there.  The database client is connected (line 271).  The key
\* `profile.uuid + member.uuid` joins two uuids of one length, so two keys are equal
\* only when both uuids are: it is kept as the pair.
Dispatch(t) ==
    /\ t \in Queued
    /\ \A u \in Queued : t <= u
    /\ QueueHasRoom
    /\ LET rec == tasks[t]
           key == <<rec.profile, rec.uuid>>
       IN IF IsRecentlyUpdated(key)
          THEN /\ tasks' = [tasks EXCEPT ![t] = Ended(rec, "skipped")]
               /\ UNCHANGED recentlyUpdated
          ELSE /\ recentlyUpdated' = MapSet(recentlyUpdated, key, now + stdTTL)
               /\ tasks' = [tasks EXCEPT ![t] = [rec EXCEPT !.pc = "addStats", !.start = now]]
    /\ UNCHANGED <<now, store, cachedRawLeaderboards, cacheVars, restVars>>

\* constants.addStats, addCollections, addSkills and addZones have returned
\* (lines 280-283): getApplicableAttributes starts.
AddStatsDone(t) ==
    /\ tasks[t].pc = "addStats"
    /\ tasks' = [tasks EXCEPT ![t] = NextRequirement(tasks[t], 1, cachedRawLeaderboards)]
    /\ UNCHANGED <<now, recentlyUpdated, store, cachedRawLeaderboards, cacheVars, restVars>>

\* getMemberLeaderboardRequirement returns into getApplicableAttributes, which
\* keeps or drops the attribute (lines 261-264) and goes on to the next one.
RequirementReturns(t) ==
    /\ tasks[t].pc = "reqHit"
    /\ LET rec == tasks[t]
           name == CurName(rec)
           requirement == getMemberLeaderboardRequirement(rec.seen)
           kept == IF IsApplicable(rec.attrs[name], requirement, isLeaderboardReversed(name))
                   THEN MapSet(rec.applicable, name, rec.attrs[name])
                   ELSE rec.applicable
       IN tasks' = [tasks EXCEPT ![t] =
              NextRequirement([rec EXCEPT !.applicable = kept], rec.i + 1, cachedRawLeaderboards)]
    /\ UNCHANGED <<now, recentlyUpdated, store, cachedRawLeaderboards, cacheVars, restVars>>

\* The store runs the query of fetchMemberLeaderboardRaw.
QueryRuns(t) ==
    /\ tasks[t].pc \in {"reqQuery", "rawQuery"}
    /\ \E found \in FindResults(store, CurName(tasks[t])) :
          tasks' = [tasks EXCEPT ![t].seen = found,
                       ![t].pc = IF tasks[t].pc = "reqQuery" THEN "reqReply" ELSE "rawReply"]
    /\ UNCHANGED <<now, recentlyUpdated, store, cachedRawLeaderboards, cacheVars, restVars>>

\* The answer of the store arrives: fetchMemberLeaderboardRaw sets the cache and
\* returns the list (lines 223-224).
QueryReturns(t) ==
    /\ tasks[t].pc \in {"reqReply", "rawReply"}
    /\ cachedRawLeaderboards' = MapSet(cachedRawLeaderboards, CurName(tasks[t]), tasks[t].seen)
    /\ tasks' = [tasks EXCEPT ![t].pc = IF tasks[t].pc = "reqReply" THEN "reqHit" ELSE "rawHit"]
    /\ UNCHANGED <<now, recentlyUpdated, store, cacheVars, restVars>>

\* The store runs updateOne.
UpsertRuns(t) ==
    /\ tasks[t].pc = "upsertSent"
    /\ store' = Upserted(store, <<tasks[t].uuid, tasks[t].profile>>, tasks[t].applicable)
    /\ tasks' = [tasks EXCEPT ![t].pc = "upsertApplied"]
    /\ UNCHANGED <<now, recentlyUpdated, cachedRawLeaderboards, cacheVars, restVars>>

\* updateOne has returned: the loop of lines 301-315 starts.
UpsertReturns(t) ==
    /\ tasks[t].pc = "upsertApplied"
    /\ tasks' = [tasks EXCEPT ![t] = NextPatch(tasks[t], 1, cachedRawLeaderboards)]
    /\ UNCHANGED <<now, recentlyUpdated, store, cachedRawLeaderboards, cacheVars, restVars>>

\* fetchMemberLeaderboardRaw has returned the list into the loop: the member is
\* put into it, the new list is set in the cache (lines 304-314), and the loop goes
\* on to the next attribute.
PatchLeaderboard(t) ==
    /\ tasks[t].pc = "rawHit"
    /\ LET rec == tasks[t]
           name == CurName(rec)
           newRawLeaderboard ==
               PatchedLeaderboard(rec.seen, rec.uuid, rec.profile, rec.applicable[name], name)
           cache == MapSet(cachedRawLeaderboards, name, newRawLeaderboard)
       IN /\ cachedRawLeaderboards' = cache
          /\ tasks' = [tasks EXCEPT ![t] = NextPatch(rec, rec.i + 1, cache)]
    /\ UNCHANGED <<now, recentlyUpdated, store, cacheVars, restVars>>

\* A faulty variant of the failure: the key is taken out of recentlyUpdated, as a
\* `finally` with recentlyUpdated.del(key) would do.
TaskFailsUnmarked(t) ==
    /\ tasks[t].pc \in {"addStats", "reqReply", "upsertSent", "rawReply"}
    /\ tasks' = [tasks EXCEPT ![t] = Ended(tasks[t], "failed")]
    /\ recentlyUpdated' = [k \in DOMAIN recentlyUpdated \ {<<tasks[t].profile, tasks[t].uuid>>}
                              |-> recentlyUpdated[k]]
    /\ UNCHANGED <<now, store, cachedRawLeaderboards, cacheVars, restVars>>

\* A call of the store or of constants throws: updateDatabaseMember ends there,
\* and the queue's task with it.
TaskFails(t) ==
    /\ tasks[t].pc \in {"addStats", "reqReply", "upsertSent", "rawReply"}
    /\ tasks' = [tasks EXCEPT ![t] = Ended(tasks[t], "failed")]
    /\ UNCHANGED <<now, recentlyUpdated, store, cachedRawLeaderboards, cacheVars, restVars>>

(***************************************************************************)
(* The loop of periodicallyFetchRecentlyEndedAuctions (hypixel.ts 376-455). *)
(* An auction is its id; the item it sold is ItemOf(id).                   *)
(***************************************************************************)
\* Three auctions of item i1, enough to fill its item auctions and add one more,
\* and one auction of item i2.
AuctionIds == {1, 2, 3, 4}
Items == {"i1", "i2"}
ItemOf(id) == IF id = 4 THEN "i2" ELSE "i1"
ItemOrder == <<"i1", "i2">>

\* endedAuctions.auctions as the upstream may send it: any auctions, in any order.
Snapshots == UNION {[1..n -> AuctionIds] : n \in 0..MaxSnapshot}
AgoValues == {0, 30, 80}     \* seconds since endedAuctions.lastUpdated

refetchBase == 60            \* 60 * 1000 milliseconds
refetchMargin == 10          \* 10000 milliseconds

Range(seq) == {seq[x] : x \in 1..Len(seq)}

\* newAuctionUuids and newAuctionItemIds of lines 386-393
NewAuctionUuids(snapshot, previous) == Range(snapshot) \ previous
NewAuctionItemIds(snapshot, previous) == {ItemOf(id) : id \in NewAuctionUuids(snapshot, previous)}

\* fetchItemsAuctions(ids): the stored item auctions of these items.
FetchedItemsAuctions(ids) == [item \in ids \cap DOMAIN itemAuctions |-> itemAuctions[item]]

\* A slice that keeps the first n auctions, what `auctions.slice(0, 100)` would do.
SliceFirst(auctions, n) ==
    IF Len(auctions) > n THEN SubSeq(auctions, 1, n) ELSE auctions

\* `auctions.slice(-100)`
SliceLast(auctions, n) ==
    IF Len(auctions) > n THEN SubSeq(auctions, Len(auctions) - n + 1, Len(auctions))
    ELSE auctions

\* The body of the loop without lines 422-423: the auctions are never cut.
MergeAuctionUncut(map, id) ==
    LET item == ItemOf(id)
        auctions == IF item \in DOMAIN map THEN map[item] ELSE <<>>
        merged == IF id \in Range(auctions) THEN auctions ELSE Append(auctions, id)
    IN [i \in DOMAIN map \cup {item} |-> IF i = item THEN merged ELSE map[i]]

\* The body of the loop without the test of line 419: the auction is pushed even
\* when its id is in the auctions.
MergeAuctionUnchecked(map, id) ==
    LET item == ItemOf(id)
        auctions == IF item \in DOMAIN map THEN map[item] ELSE <<>>
        pushed == Append(auctions, id)
        merged == IF Len(pushed) > historyMax THEN SliceLast(pushed, historyMax) ELSE pushed
    IN [i \in DOMAIN map \cup {item} |-> IF i = item THEN merged ELSE map[i]]

\* The body of the loop of lines 400-430 for one auction that is not in
\* previousAuctionIds: the new value of updatedDatabaseAuctionItems.
MergeAuction(map, id) ==
    LET item == ItemOf(id)
        auctions == IF item \in DOMAIN map THEN map[item] ELSE <<>>
        pushed == Append(auctions, id)
        merged == IF id \in Range(auctions) THEN auctions
                  ELSE IF Len(pushed) > historyMax THEN SliceLast(pushed, historyMax)
                  ELSE pushed
    IN [i \in DOMAIN map \cup {item} |-> IF i = item THEN merged ELSE map[i]]

\* The loop of lines 400-430 over the whole snapshot.
RECURSIVE MergeAll(_, _, _)
MergeAll(map, snapshot, previous) ==
    IF snapshot = <<>> THEN map
    ELSE MergeAll(IF Head(snapshot) \in previous THEN map
                  ELSE MergeAuction(map, Head(snapshot)),
                  Tail(snapshot), previous)

\* The auctions that line 420 pushes in the loop over the whole snapshot, in order.
RECURSIVE PushedAuctions(_, _, _)
PushedAuctions(map, snapshot, previous) ==
    IF snapshot = <<>> THEN <<>>
    ELSE LET id == Head(snapshot)
             auctions == IF ItemOf(id) \in DOMAIN map THEN map[ItemOf(id)] ELSE <<>>
         IN IF id \in previous THEN PushedAuctions(map, Tail(snapshot), previous)
            ELSE (IF id \in Range(auctions) THEN <<>> ELSE <<id>>)
                 \o PushedAuctions(MergeAuction(map, id), Tail(snapshot), previous)

\* Array.from(updatedDatabaseAuctionItems.values()): a Map keeps the order in which
\* its keys were first set: the fetched items (here in ItemOrder), then the items
\* of the new auctions in the order of the snapshot.
FirstSeen(seq) ==
    SelectSeq([x \in 1..Len(seq) |-> IF \E y \in 1..x - 1 : seq[y] = seq[x] THEN "" ELSE seq[x]],
              LAMBDA i : i # "")
ValuesOrder(fetched, snapshot, previous) ==
    LET loaded == SelectSeq(ItemOrder, LAMBDA i : i \in DOMAIN fetched)
        newIds == SelectSeq(snapshot, LAMBDA id : id \notin previous)
        newItems == [x \in 1..Len(newIds) |-> ItemOf(newIds[x])]
    IN loaded \o FirstSeen(SelectSeq(newItems, LAMBDA i : i \notin DOMAIN fetched))

NoWorker == "none"
\* The doTasks() calls up to their first await (lines 434-445): call number w pops
\* the last promise but w - 1 and awaits it; a call that finds none returns.
StartedWorkers(order) ==
    [w \in 1..poolSize |-> IF w <= Len(order) THEN order[Len(order) - w + 1] ELSE NoWorker]
LeftTasks(order) ==
    SubSeq(order, 1, IF Len(order) > poolSize THEN Len(order) - poolSize ELSE 0)

\* `await Promise.all(...)` has returned: lines 447-453, up to the setTimeout.
IterationEnds ==
    /\ previousAuctionIds' = NewAuctionUuids(endedAuctions, previousAuctionIds)
    /\ \E ago \in AgoValues :
          /\ endedAgo' = ago
          /\ refetchIn' = refetchBase - ago + refetchMargin
    /\ loopPc' = "sleep"

AuctionRest == <<now, cacheVars, boardVars, janitorVars, statVars>>

\* The loop starts an iteration: sendCleanApiRequest('skyblock/auctions_ended') is
\* sent (lines 380-383): when the function is called, and when the timer of line
\* 453 fires.
IterationStarts ==
    /\ loopPc \in {"notCalled", "sleep"}
    /\ iterations < MaxIterations
    /\ iterations' = iterations + 1
    /\ loopPc' = "fetch"
    \* the variables declared in the body of the loop are new ones
    /\ endedAuctions' = <<>>
    /\ endedAgo' = 0
    /\ updatedDatabaseAuctionItems' = Empty
    /\ writes' = Empty
    /\ refetchIn' = 0
    /\ UNCHANGED <<previousAuctionIds, itemAuctions, poolTasks, workers, pushes, AuctionRest>>

\* The snapshot arrives: the new auctions are collected and fetchItemsAuctions is
\* called (lines 386-396).
SnapshotReturns(snapshot) ==
    /\ loopPc = "fetch"
    /\ endedAuctions' = snapshot
    /\ loopPc' = "load"
    /\ UNCHANGED <<iterations, previousAuctionIds, endedAgo, updatedDatabaseAuctionItems,
                   itemAuctions, writes, poolTasks, workers, refetchIn, pushes, AuctionRest>>

\* fetchItemsAuctions returns: the auctions are merged into the item auctions
\* (lines 397-430), updateItemAuction is called for every item of the Map (line
\* 433), and the doTasks() calls start (line 445).
ItemsAuctionsReturn ==
    /\ loopPc = "load"
    /\ LET fetched == FetchedItemsAuctions(NewAuctionItemIds(endedAuctions, previousAuctionIds))
           merged == MergeAll(fetched, endedAuctions, previousAuctionIds)
           order == ValuesOrder(fetched, endedAuctions, previousAuctionIds)
       IN /\ updatedDatabaseAuctionItems' = merged
          /\ pushes' = pushes \cup Range(PushedAuctions(fetched, endedAuctions, previousAuctionIds))
          /\ writes' = [item \in DOMAIN merged |-> [auctions |-> merged[item], state |-> "pending"]]
          /\ workers' = StartedWorkers(order)
          /\ poolTasks' = LeftTasks(order)
          /\ IF order = <<>>
             THEN IterationEnds
             ELSE loopPc' = "write" /\ UNCHANGED <<previousAuctionIds, endedAgo, refetchIn>>
    /\ UNCHANGED <<iterations, endedAuctions, itemAuctions, AuctionRest>>

\* The store has written the item auctions of one updateItemAuction call.
WriteDone(item) ==
    /\ item \in DOMAIN writes
    /\ writes[item].state = "pending"
    /\ writes' = [writes EXCEPT ![item].state = "done"]
    /\ itemAuctions' = MapSet(itemAuctions, item, writes[item].auctions)
    /\ UNCHANGED <<loopPc, iterations, previousAuctionIds, endedAuctions, endedAgo,
                   updatedDatabaseAuctionItems, poolTasks, workers, refetchIn, pushes, AuctionRest>>

\* One updateItemAuction call fails: its promise is rejected.
WriteFails(item) ==
    /\ item \in DOMAIN writes
    /\ writes[item].state = "pending"
    /\ writes' = [writes EXCEPT ![item].state = "failed"]
    /\ UNCHANGED <<loopPc, iterations, previousAuctionIds, endedAuctions, endedAgo,
                   updatedDatabaseAuctionItems, itemAuctions, poolTasks, workers, refetchIn,
                   pushes, AuctionRest>>

\* The promise a doTasks() call awaits is fulfilled: it pops the next promise, or
\* returns when there is none (lines 436-442); when the last call has returned,
\* Promise.all is fulfilled and the iteration ends.
WorkerResumes(w) ==
    /\ loopPc = "write"
    /\ workers[w] # NoWorker
    /\ writes[workers[w]].state = "done"
    /\ IF poolTasks # <<>>
       THEN /\ workers' = [workers EXCEPT ![w] = poolTasks[Len(poolTasks)]]
            /\ poolTasks' = SubSeq(poolTasks, 1, Len(poolTasks) - 1)
            /\ UNCHANGED <<loopPc, previousAuctionIds, endedAgo, refetchIn>>
       ELSE /\ workers' = [workers EXCEPT ![w] = NoWorker]
            /\ UNCHANGED poolTasks
            /\ IF \A u \in 1..poolSize : u # w => workers[u] = NoWorker
               THEN IterationEnds
               ELSE UNCHANGED <<loopPc, previousAuctionIds, endedAgo, refetchIn>>
    /\ UNCHANGED <<iterations, endedAuctions, updatedDatabaseAuctionItems,
                   itemAuctions, writes, pushes, AuctionRest>>

\* The promise a doTasks() call awaits is rejected: the call throws, Promise.all
\* is rejected, and the exception leaves the loop and the function (line 445).
WorkerThrows(w) ==
    /\ loopPc = "write"
    /\ workers[w] # NoWorker
    /\ writes[workers[w]].state = "failed"
    /\ loopPc' = "stopped"
    /\ UNCHANGED <<iterations, previousAuctionIds, endedAuctions, endedAgo,
                   updatedDatabaseAuctionItems, itemAuctions, writes, poolTasks, workers,
                   refetchIn, pushes, AuctionRest>>

\* sendCleanApiRequest (line 381) or fetchItemsAuctions (line 396) throws: the
\* exception leaves the loop and the function, which has no try.
LoopCallFails ==
    /\ loopPc \in {"fetch", "load"}
    /\ loopPc' = "stopped"
    /\ UNCHANGED <<iterations, previousAuctionIds, endedAuctions, endedAgo,
                   updatedDatabaseAuctionItems, itemAuctions, writes, poolTasks, workers,
                   refetchIn, pushes, AuctionRest>>

(***************************************************************************)
(* The two jobs started when the database is connected (index.ts 374-381): *)
(* removeBadMemberLeaderboardAttributes ("prune", lines 334-357) and       *)
(* fetchAllLeaderboards ("warm", lines 360-371, again every four hours).   *)
(***************************************************************************)
JobNames == {"prune", "warm"}

\* shuffle(leaderboards): the names in any order.
NameOrders ==
    {order \in [1..Cardinality(LeaderboardNames) -> LeaderboardNames] :
        \A x, y \in DOMAIN order : x # y => order[x] # order[y]}

NoJob ==
    [pc |-> "idle", left |-> <<>>, name |-> "", seen |-> <<>>, requirement |-> <<>>,
     passes |-> 0]

\* The fields of a document of the collection (lines 287-296); the model keeps
\* `stats` of the document with key (uuid, profile) in store.
DocFields == {"uuid", "profile", "stats", "last_updated"}

\* How the driver sends the `undefined` of the filter of lines 346-349: left out
\* (ignoreUndefined), or as null, which is the default and compares with no number.
UndefinedAs == {"ignored", "null"}

\* The filter {stats.name: {$lt: reversed ? undefined : requirement,
\*                          $gt: reversed ? requirement : undefined}}
FilterMatches(stats, name, requirement, reversed, sem) ==
    /\ name \in DOMAIN stats
    /\ sem = "ignored"
    /\ IF reversed THEN stats[name] > requirement ELSE stats[name] < requirement

\* {$unset: unsetValue} with unsetValue[leaderboard] = '' (lines 341-342): the
\* field `leaderboard` of the document is removed, not `stats.leaderboard`.
UnsetField(stats, field) ==
    IF field \in DocFields
    THEN (IF field = "stats" THEN Empty ELSE stats)
    ELSE stats

\* updateMany(filter, {$unset: unsetValue}) on store st (lines 350-353)
Pruned(st, name, requirement, reversed, sem) ==
    [k \in DOMAIN st |->
        IF FilterMatches(st[k], name, requirement, reversed, sem)
        THEN UnsetField(st[k], name)
        ELSE st[k]]

\* The job goes on to its next name (sleep), or has none left.
NextName(rec) ==
    [rec EXCEPT !.pc = IF rec.left = <<>> THEN "finished" ELSE "sleep"]

\* fetchMemberLeaderboardRaw(name) has returned `leaderboard` to job j.  prune:
\* the requirement is taken (lines 249-254) and, when it is not null, updateMany
\* is sent (lines 345-353).  warm: fetchMemberLeaderboard asks for the player of
\* every item (lines 229-239).
AfterRaw(j, rec, leaderboard) ==
    IF j = "prune"
    THEN LET requirement == getMemberLeaderboardRequirement(leaderboard)
         IN IF requirement # <<>>
            THEN [rec EXCEPT !.pc = "unset", !.requirement = requirement]
            ELSE NextName([rec EXCEPT !.requirement = requirement])
    ELSE IF leaderboard = <<>> THEN NextName(rec) ELSE [rec EXCEPT !.pc = "players"]

JanitorRest == <<now, cacheVars, recentlyUpdated, tasks, auctionVars, statVars>>

\* A job is called and has the names of the leaderboards: prune once, warm at
\* startup and from the timer of line 380, whatever became of its last pass.
PassStarts(j, order) ==
    /\ \/ jobs[j].pc = "idle"
       \/ j = "warm" /\ jobs[j].pc \in {"finished", "aborted"}
    /\ jobs[j].passes < MaxPasses
    /\ jobs' = [jobs EXCEPT ![j] = [NoJob EXCEPT !.pc = "sleep", !.left = order,
                                                !.passes = jobs[j].passes + 1]]
    /\ UNCHANGED <<store, cachedRawLeaderboards, JanitorRest>>

\* The sleep before a name is over (lines 339, 366): fetchMemberLeaderboardRaw
\* returns the cached list (lines 213-214) or sends the query to the store.
SleepEnds(j) ==
    /\ jobs[j].pc = "sleep"
    /\ LET name == Head(jobs[j].left)
           rec == [jobs[j] EXCEPT !.name = name, !.left = Tail(jobs[j].left),
                                  !.seen = <<>>, !.requirement = <<>>]
       IN jobs' = [jobs EXCEPT ![j] =
                     IF name \in DOMAIN cachedRawLeaderboards
                     THEN AfterRaw(j, rec, cachedRawLeaderboards[name])
                     ELSE [rec EXCEPT !.pc = "query"]]
    /\ UNCHANGED <<store, cachedRawLeaderboards, JanitorRest>>

\* The store runs the query of line 222.
JanitorQueryRuns(j) ==
    /\ jobs[j].pc = "query"
    /\ \E l \in FindResults(store, jobs[j].name) :
          jobs' = [jobs EXCEPT ![j].pc = "reply", ![j].seen = l]
    /\ UNCHANGED <<store, cachedRawLeaderboards, JanitorRest>>

\* The answer arrives: cachedRawLeaderboards.set(name, leaderboardRaw), line 223.
JanitorQueryReturns(j) ==
    /\ jobs[j].pc = "reply"
    /\ cachedRawLeaderboards' = MapSet(cachedRawLeaderboards, jobs[j].name, jobs[j].seen)
    /\ jobs' = [jobs EXCEPT ![j] = AfterRaw(j, jobs[j], jobs[j].seen)]
    /\ UNCHANGED <<store, JanitorRest>>

\* updateMany of lines 350-353 is done.
UnsetReturns(j, sem) ==
    /\ jobs[j].pc = "unset"
    /\ store' = Pruned(store, jobs[j].name, jobs[j].requirement[1],
                       isLeaderboardReversed(jobs[j].name), sem)
    /\ jobs' = [jobs EXCEPT ![j] = NextName(jobs[j])]
    /\ UNCHANGED <<cachedRawLeaderboards, JanitorRest>>

\* The players of the items have come (line 239).
PlayersReturn(j) ==
    /\ jobs[j].pc = "players"
    /\ jobs' = [jobs EXCEPT ![j] = NextName(jobs[j])]
    /\ UNCHANGED <<store, cachedRawLeaderboards, JanitorRest>>

\* The call a job awaits throws (the query of line 222, updateMany of line 350,
\* fetchBasicPlayer of line 231): neither loop has a try, the job ends there.
JanitorFails(j) ==
    /\ jobs[j].pc \in {"query", "unset", "players"}
    /\ jobs' = [jobs EXCEPT ![j].pc = "aborted"]
    /\ UNCHANGED <<store, cachedRawLeaderboards, JanitorRest>>

(***************************************************************************)
(* categorizeStat (src/src/cleaners/skyblock/profile.ts, lines 124-187).   *)
(* A string is the sequence of its characters, Chars(str).  A name that    *)
(* may be null is <<>> for null and <<chars>> for a string.                *)
(***************************************************************************)
\* statCategories, in the order of its keys; `none` is the null of 'misc'.
statCategories ==
    << [category |-> "deaths", matchers |-> <<"deaths_", "deaths">>, none |-> FALSE],
       [category |-> "kills", matchers |-> <<"kills_", "kills">>, none |-> FALSE],
       [category |-> "fishing",
        matchers |-> <<"items_fished_", "items_fished", "shredder_">>, none |-> FALSE],
       [category |-> "auctions", matchers |-> <<"auctions_">>, none |-> FALSE],
       [category |-> "races", matchers |-> <<"_best_time", "_best_time_2">>, none |-> FALSE],
       [category |-> "mythos",
        matchers |-> <<"mythos_burrows_", "mythos_kills">>, none |-> FALSE],
       [category |-> "farming_contests", matchers |-> <<"farming_contests_">>, none |-> FALSE],
       [category |-> "collection", matchers |-> <<"collection_">>, none |-> FALSE],
       [category |-> "skills", matchers |-> <<"skill_">>, none |-> FALSE],
       [category |-> "slayer", matchers |-> <<"slayer_">>, none |-> FALSE],
       [category |-> "harp", matchers |-> <<"harp_">>, none |-> FALSE],
       [category |-> "misc", matchers |-> <<>>, none |-> TRUE] >>

\* The three tests with the slices left out: a match returns the whole name.
MatcherResultWhole(chars, categoryMatch) ==
    LET m == Chars(categoryMatch)
        trailingEnd == m[1] = "_"
        trailingStart == m[Len(m)] = "_"
    IN IF trailingStart /\ StartsWith(chars, m) THEN << <<chars>> >>
       ELSE IF trailingEnd /\ EndsWith(chars, m) THEN << <<chars>> >>
       ELSE IF chars = m THEN << <<>> >>
       ELSE <<>>

\* The three tests of lines 164-180 for one matcher: <<name>> for the name that
\* is returned, <<>> when the matcher does not match.
MatcherResult(chars, categoryMatch) ==
    LET m == Chars(categoryMatch)
        trailingEnd == m[1] = "_"
        trailingStart == m[Len(m)] = "_"
    IN IF trailingStart /\ StartsWith(chars, m)
       THEN << <<SubSeq(chars, Len(m) + 1, Len(chars))>> >>
       ELSE IF trailingEnd /\ EndsWith(chars, m)
       THEN << <<SubSeq(chars, 1, Len(chars) - Len(m))>> >>
       ELSE IF chars = m THEN << <<>> >>
       ELSE <<>>

\* The loop over the matchers of one category (line 160), from matcher x on.
RECURSIVE FirstMatch(_, _, _)
FirstMatch(chars, matchers, x) ==
    IF x > Len(matchers) THEN <<>>
    ELSE LET result == MatcherResult(chars, matchers[x])
         IN IF result # <<>> THEN result ELSE FirstMatch(chars, matchers, x + 1)

\* The loop over the categories (line 149), from category c on.
RECURSIVE CategorizeFrom(_, _)
CategorizeFrom(chars, c) ==
    IF c > Len(statCategories) THEN [category |-> Null, name |-> <<chars>>]
    ELSE IF statCategories[c].none
         THEN [category |-> statCategories[c].category, name |-> <<chars>>]
         ELSE LET result == FirstMatch(chars, statCategories[c].matchers, 1)
              IN IF result # <<>>
                 THEN [category |-> statCategories[c].category, name |-> result[1]]
                 ELSE CategorizeFrom(chars, c + 1)

categorizeStat(statNameRaw) == CategorizeFrom(Chars(statNameRaw), 1)

\* statUnits (lines 189-194), in the order of its keys.
statUnits ==
    << [unitName |-> "time",
        statMatchers |-> <<"_best_time", "_best_time_2", "fastest_coop_join",
                           "slowest_coop_join">>],
       [unitName |-> "date", statMatchers |-> <<"first_join", "last_save">>],
       [unitName |-> "coins", statMatchers |-> <<"purse">>],
       [unitName |-> "leaderboards",
        statMatchers |-> <<"leaderboards_count", "top_1_leaderboards_count">>] >>

\* The test with its two halves exchanged: a matcher that begins with '_' is
\* looked for at the start of the name, one that ends with '_' at its end.
UnitMatchesSwapped(name, statMatch) ==
    LET m == Chars(statMatch)
    IN \/ m[1] = "_" /\ StartsWith(Chars(name), m)
       \/ m[Len(m)] = "_" /\ EndsWith(Chars(name), m)
       \/ Chars(name) = m

\* The test of lines 209-213 for one matcher of statUnits.
UnitMatches(name, statMatch) ==
    LET m == Chars(statMatch)
        trailingEnd == m[1] = "_"
        trailingStart == m[Len(m)] = "_"
    IN \/ trailingStart /\ StartsWith(Chars(name), m)
       \/ trailingEnd /\ EndsWith(Chars(name), m)
       \/ Chars(name) = m

\* The loop over the units (line 205), from unit u on: the first unit with a
\* matcher that matches, or null.
RECURSIVE GetStatUnitFrom(_, _)
GetStatUnitFrom(name, u) ==
    IF u > Len(statUnits) THEN Null
    ELSE IF \E x \in 1..Len(statUnits[u].statMatchers) :
               UnitMatches(name, statUnits[u].statMatchers[x])
         THEN statUnits[u].unitName
         ELSE GetStatUnitFrom(name, u + 1)

getStatUnit(name) == GetStatUnitFrom(name, 1)

\* Stat names: the matchers themselves, and names made of a beginning and an end
\* that are matchers, parts of matchers, or neither.
StatNames ==
    {"kills_zombie", "first_join", "_best_time", "_best_time_2", "deaths_", "deaths",
     "kills_", "kills", "items_fished_", "items_fished", "shredder_", "auctions_",
     "mythos_burrows_", "mythos_kills", "farming_contests_", "collection_", "skill_",
     "slayer_", "harp_", "fastest_coop_join", "slowest_coop_join", "last_save",
     "purse", "leaderboards_count", "top_1_leaderboards_count", "void", "zombie",
     "wheat", "stat", "deaths_void", "deaths_zombie", "deaths_wheat", "deaths_stat",
     "deaths__best_time", "deaths__best_time_2", "deaths_first_join", "deaths_deaths_",
     "deaths_purse", "deathsvoid", "deathszombie", "deathswheat", "deathsstat",
     "deaths_best_time", "deaths_best_time_2", "deathsfirst_join", "deathsdeaths_",
     "deathspurse", "kills_void", "kills_wheat", "kills_stat", "kills__best_time",
     "kills__best_time_2", "kills_first_join", "kills_deaths_", "kills_purse",
     "killsvoid", "killszombie", "killswheat", "killsstat", "kills_best_time",
     "kills_best_time_2", "killsfirst_join", "killsdeaths_", "killspurse",
     "items_fished_void", "items_fished_zombie", "items_fished_wheat",
     "items_fished_stat", "items_fished__best_time", "items_fished__best_time_2",
     "items_fished_first_join", "items_fished_deaths_", "items_fished_purse",
     "shredder_void", "shredder_zombie", "shredder_wheat", "shredder_stat",
     "shredder__best_time", "shredder__best_time_2", "shredder_first_join",
     "shredder_deaths_", "shredder_purse", "mythos_killsvoid", "mythos_killszombie",
     "mythos_killswheat", "mythos_killsstat", "mythos_kills_best_time",
     "mythos_kills_best_time_2", "mythos_killsfirst_join", "mythos_killsdeaths_",
     "mythos_killspurse", "collection_void", "collection_zombie", "collection_wheat",
     "collection_stat", "collection__best_time", "collection__best_time_2",
     "collection_first_join", "collection_deaths_", "collection_purse", "skill_void",
     "skill_zombie", "skill_wheat", "skill_stat", "skill__best_time",
     "skill__best_time_2", "skill_first_join", "skill_deaths_", "skill_purse",
     "totally_unknown_", "totally_unknown_void", "totally_unknown_zombie",
     "totally_unknown_wheat", "totally_unknown_stat", "totally_unknown__best_time",
     "totally_unknown__best_time_2", "totally_unknown_first_join",
     "totally_unknown_deaths_", "totally_unknown_purse", "dragon", "dragonvoid",
     "dragonzombie", "dragonwheat", "dragonstat", "dragon_best_time",
     "dragon_best_time_2", "dragonfirst_join", "dragondeaths_", "dragonpurse",
     "first_joinvoid", "first_joinzombie", "first_joinwheat", "first_joinstat",
     "first_join_best_time", "first_join_best_time_2", "first_joinfirst_join",
     "first_joindeaths_", "first_joinpurse", "my_", "my_void", "my_zombie", "my_wheat",
     "my_stat", "my__best_time", "my__best_time_2", "my_first_join", "my_deaths_",
     "my_purse", "_best_time_", "_best_time_void", "_best_time_zombie",
     "_best_time_wheat", "_best_time_stat", "_best_time__best_time",
     "_best_time__best_time_2", "_best_time_first_join", "_best_time_deaths_",
     "_best_time_purse"}

StatRest == <<now, cacheVars, boardVars, auctionVars, janitorVars>>

\* categorizeStat is called with the name.
CallCategorizeStat ==
    /\ statPc = "given"
    /\ statPc' = "categorized"
    /\ statResult' = categorizeStat(statName)
    /\ UNCHANGED <<statName, StatRest>>

\* isLeaderboardReversed is called with the name.
CallIsLeaderboardReversed ==
    /\ statPc = "given"
    /\ statPc' = "reversed"
    /\ statResult' = [reversed |-> isLeaderboardReversed(statName)]
    /\ UNCHANGED <<statName, StatRest>>

\* getStatUnit is called with the name.
CallGetStatUnit ==
    /\ statPc = "given"
    /\ statPc' = "unit"
    /\ statResult' = [unit |-> getStatUnit(statName)]
    /\ UNCHANGED <<statName, StatRest>>

(***************************************************************************)
(* The specifications.                                                     *)
(***************************************************************************)
\* The auction loop before periodicallyFetchRecentlyEndedAuctions is called.
AuctionAtLoad ==
    /\ loopPc = "notCalled"
    /\ iterations = 0
    /\ previousAuctionIds = {}
    /\ endedAuctions = <<>>
    /\ endedAgo = 0
    /\ updatedDatabaseAuctionItems = Empty
    /\ itemAuctions = Empty
    /\ writes = Empty
    /\ poolTasks = <<>>
    /\ workers = [w \in 1..poolSize |-> NoWorker]
    /\ refetchIn = 0
    /\ pushes = {}

\* The jobs before the database is connected.
JanitorAtLoad == jobs = [j \in JobNames |-> NoJob]

\* No stat name is given.
StatAtLoad ==
    /\ statName = ""
    /\ statPc = "none"
    /\ statResult = Empty

RestAtLoad == AuctionAtLoad /\ JanitorAtLoad /\ StatAtLoad

vars == <<now, isFetching, cachedData, nextUpdate, calls, rounds,
          recentlyUpdated, store, cachedRawLeaderboards, tasks, restVars>>

NextCache ==
    \/ \E k \in CallerIds, c \in CacheNames : Call(k, c)
    \/ \E k \in CallerIds : PollRelease(k)
    \/ \E k \in CallerIds, v \in DataValues, age \in 0..MaxAge : FetchSucceed(k, v, age)
    \/ \E k \in CallerIds : FetchFail(k)
    \/ \E k \in CallerIds : IdsReturn(k)
    \/ \E k \in CallerIds : IdsMissing(k)
    \/ Tick

\* The module state of hypixel.ts when it is loaded (lines 298-300, 333-335,
\* 457-459); no leaderboard update is made.
InitCache ==
    /\ now = StartNow
    /\ isFetching = [c \in CacheNames |-> FALSE]
    /\ cachedData = [c \in CacheNames |-> Null]
    /\ nextUpdate = [c \in CacheNames |-> DateZero]
    /\ calls = [k \in CallerIds |-> IdleCall]
    /\ rounds = [c \in CacheNames |-> 0]
    /\ recentlyUpdated = Empty
    /\ store = Empty
    /\ cachedRawLeaderboards = Empty
    /\ tasks = [t \in TaskIds |-> NoTask]
    /\ RestAtLoad

SpecCache == InitCache /\ [][NextCache]_vars

\* The event loop runs every callback that is ready: a timer that can release a
\* waiting call fires, and a pending request ends (with a response or an error).
FetchEnds(k) == (\E v \in DataValues, age \in 0..MaxAge : FetchSucceed(k, v, age)) \/ FetchFail(k)
IdsEnds(k) == IdsReturn(k) \/ IdsMissing(k) \/ FetchFail(k)
SpecCacheFair ==
    /\ SpecCache
    /\ \A k \in CallerIds : WF_vars(PollRelease(k))
    /\ \A k \in CallerIds : WF_vars(FetchEnds(k))
    /\ \A k \in CallerIds : WF_vars(IdsEnds(k))

\* What the collection can hold when the process starts: documents written by
\* earlier runs.
InitialStats == {[n \in LeaderboardNames |-> v] : v \in Values}
StoredKeys == {k \in MemberKeys : k[1] = "B"}
InitialStores ==
    UNION {[S -> InitialStats] : S \in SUBSET StoredKeys}
UpdatedKeys == {k \in MemberKeys : k[2] = "X"}
BoardAttrs == [LeaderboardNames -> Values]

\* The leaderboards with the store's values in play: few updates, the clock stopped.
InitBoard ==
    /\ now = StartNow
    /\ isFetching = [c \in CacheNames |-> FALSE]
    /\ cachedData = [c \in CacheNames |-> Null]
    /\ nextUpdate = [c \in CacheNames |-> DateZero]
    /\ calls = [k \in CallerIds |-> IdleCall]
    /\ rounds = [c \in CacheNames |-> 0]
    /\ recentlyUpdated = Empty
    /\ store \in InitialStores
    /\ cachedRawLeaderboards = Empty
    /\ tasks = [t \in TaskIds |-> NoTask]
    /\ RestAtLoad

\* An update in SpecBoard: each member is fetched once.
BoardEnqueue(uuid, profile, attrs) ==
    /\ \A t \in Enqueued : <<tasks[t].uuid, tasks[t].profile>> # <<uuid, profile>>
    /\ Enqueue(uuid, profile, attrs)

NextBoard ==
    \/ \E k \in UpdatedKeys, attrs \in BoardAttrs : BoardEnqueue(k[1], k[2], attrs)
    \/ \E t \in TaskIds : Dispatch(t)
    \/ \E t \in TaskIds : AddStatsDone(t)
    \/ \E t \in TaskIds : RequirementReturns(t)
    \/ \E t \in TaskIds : QueryRuns(t)
    \/ \E t \in TaskIds : QueryReturns(t)
    \/ \E t \in TaskIds : UpsertRuns(t)
    \/ \E t \in TaskIds : UpsertReturns(t)
    \/ \E t \in TaskIds : PatchLeaderboard(t)
    \/ \E t \in TaskIds : TaskFails(t)

SpecBoard == InitBoard /\ [][NextBoard]_vars

\* The queue and the gate with the clock running: a fresh store, and updates of
\* one member, whose first_join the test of line 263 lets onto a leaderboard that
\* is not full.
QueueAttrs == {[n \in {"first_join"} |-> -1]}
QueueKeys == {k \in MemberKeys : k[1] = "A"}

InitQueue ==
    /\ now = StartNow
    /\ isFetching = [c \in CacheNames |-> FALSE]
    /\ cachedData = [c \in CacheNames |-> Null]
    /\ nextUpdate = [c \in CacheNames |-> DateZero]
    /\ calls = [k \in CallerIds |-> IdleCall]
    /\ rounds = [c \in CacheNames |-> 0]
    /\ recentlyUpdated = Empty
    /\ store = Empty
    /\ cachedRawLeaderboards = Empty
    /\ tasks = [t \in TaskIds |-> NoTask]
    /\ RestAtLoad

NextQueue ==
    \/ \E k \in QueueKeys, attrs \in QueueAttrs : Enqueue(k[1], k[2], attrs)
    \/ \E t \in TaskIds : Dispatch(t)
    \/ \E t \in TaskIds : AddStatsDone(t)
    \/ \E t \in TaskIds : RequirementReturns(t)
    \/ \E t \in TaskIds : QueryRuns(t)
    \/ \E t \in TaskIds : QueryReturns(t)
    \/ \E t \in TaskIds : UpsertRuns(t)
    \/ \E t \in TaskIds : UpsertReturns(t)
    \/ \E t \in TaskIds : PatchLeaderboard(t)
    \/ \E t \in TaskIds : TaskFails(t)
    \/ Tick

SpecQueue == InitQueue /\ [][NextQueue]_vars

\* The auction loop alone: the caches and the leaderboards stay as loaded.
InitAuction ==
    /\ now = StartNow
    /\ isFetching = [c \in CacheNames |-> FALSE]
    /\ cachedData = [c \in CacheNames |-> Null]
    /\ nextUpdate = [c \in CacheNames |-> DateZero]
    /\ calls = [k \in CallerIds |-> IdleCall]
    /\ rounds = [c \in CacheNames |-> 0]
    /\ recentlyUpdated = Empty
    /\ store = Empty
    /\ cachedRawLeaderboards = Empty
    /\ tasks = [t \in TaskIds |-> NoTask]
    /\ AuctionAtLoad
    /\ JanitorAtLoad
    /\ StatAtLoad

NextAuction ==
    \/ IterationStarts
    \/ \E snapshot \in Snapshots : SnapshotReturns(snapshot)
    \/ ItemsAuctionsReturn
    \/ \E item \in Items : WriteDone(item)
    \/ \E item \in Items : WriteFails(item)
    \/ \E w \in 1..poolSize : WorkerResumes(w)
    \/ \E w \in 1..poolSize : WorkerThrows(w)
    \/ LoopCallFails

SpecAuction == InitAuction /\ [][NextAuction]_vars

\* The jobs alone, on a collection in which every member has both attributes.
JanitorStores == [MemberKeys -> InitialStats]

InitJanitor ==
    /\ now = StartNow
    /\ isFetching = [c \in CacheNames |-> FALSE]
    /\ cachedData = [c \in CacheNames |-> Null]
    /\ nextUpdate = [c \in CacheNames |-> DateZero]
    /\ calls = [k \in CallerIds |-> IdleCall]
    /\ rounds = [c \in CacheNames |-> 0]
    /\ recentlyUpdated = Empty
    /\ store \in JanitorStores
    /\ cachedRawLeaderboards = Empty
    /\ tasks = [t \in TaskIds |-> NoTask]
    /\ AuctionAtLoad
    /\ JanitorAtLoad
    /\ StatAtLoad

NextJanitor ==
    \/ \E j \in JobNames, order \in NameOrders : PassStarts(j, order)
    \/ \E j \in JobNames : SleepEnds(j)
    \/ \E j \in JobNames : JanitorQueryRuns(j)
    \/ \E j \in JobNames : JanitorQueryReturns(j)
    \/ \E j \in JobNames, sem \in UndefinedAs : UnsetReturns(j, sem)
    \/ \E j \in JobNames : PlayersReturn(j)
    \/ \E j \in JobNames : JanitorFails(j)

SpecJanitor == InitJanitor /\ [][NextJanitor]_vars

\* The two functions of stat names, each called with any of the names.
InitStat ==
    /\ now = StartNow
    /\ isFetching = [c \in CacheNames |-> FALSE]
    /\ cachedData = [c \in CacheNames |-> Null]
    /\ nextUpdate = [c \in CacheNames |-> DateZero]
    /\ calls = [k \in CallerIds |-> IdleCall]
    /\ rounds = [c \in CacheNames |-> 0]
    /\ recentlyUpdated = Empty
    /\ store = Empty
    /\ cachedRawLeaderboards = Empty
    /\ tasks = [t \in TaskIds |-> NoTask]
    /\ AuctionAtLoad
    /\ JanitorAtLoad
    /\ statName \in StatNames
    /\ statPc = "given"
    /\ statResult = Empty

NextStat ==
    \/ CallCategorizeStat
    \/ CallIsLeaderboardReversed
    \/ CallGetStatUnit

SpecStat == InitStat /\ [][NextStat]_vars

(***************************************************************************)
(* The claims about the caches of hypixel.ts.                              *)
(***************************************************************************)
\* The calls of cache function c that came in refresh round r and found the cache
\* cold or expired (they fetched or waited).
ColdCalls(c, r) ==
    {k \in CallerIds : /\ calls[k].fn = c
                       /\ calls[k].arrived = r
                       /\ (calls[k].polled \/ calls[k].fetched)}

\* The calls whose refresh of cache c is in flight.
Refreshing(c) ==
    {k \in CallerIds :
        IF c = "auctionItems"
        THEN calls[k].fn = c /\ (calls[k].pc = "ids" \/ calls[k].inner)
        ELSE CurCache(k) = c /\ calls[k].pc = "fetch"}

\* C1: when two or more calls of one cache function find the cache cold or expired
\* in the same refresh round, and none of them fails, at most one of them invokes
\* the upstream fetch, exactly one has once they all returned, and they all return
\* the same value.
C1_OneFetchForConcurrentCalls ==
    \A c \in CacheNames : \A r \in 0..MaxCallers :
        LET S == ColdCalls(c, r)
            F == {k \in S : calls[k].fetched}
        IN (/\ Cardinality(S) >= 2
            /\ \A k \in S : calls[k].pc # "threw" /\ calls[k].result # Undefined)
           => /\ Cardinality(F) <= 1
              /\ (\A k \in S : calls[k].pc = "returned")
                    => /\ Cardinality(F) = 1
                       /\ \A j, k \in S : calls[j].result = calls[k].result

\* C2: at most one refresh is in flight per cache, and a call that waited for a
\* refresh in flight never starts a refresh of its own.
C2_OneRefreshInFlight ==
    /\ \A c \in CacheNames : Cardinality(Refreshing(c)) <= 1
    /\ \A k \in CallerIds : ~(calls[k].polled /\ calls[k].fetched)

\* C3: when the upstream fetch of a call fails, the failure is propagated, the
\* flag of the cache is false afterwards, the cached value and expiry are as
\* before, and the next call would not wait.
C3_FailureClearsFlag ==
    [][\A k \in CallerIds :
          (calls[k].pc \in {"fetch", "ids"} /\ calls'[k].pc = "threw")
          => /\ ~isFetching'[calls[k].fn]
             /\ cachedData' = cachedData
             /\ nextUpdate' = nextUpdate
             /\ ~(isFetching'[calls[k].fn] /\ cachedData'[calls[k].fn] = Null)]_vars

\* C4: every call that waits (for a refresh in flight, or for its own request)
\* eventually returns or throws.
C4_EveryGetCompletes ==
    \A k \in CallerIds :
        (calls[k].pc \in {"poll", "fetch", "ids"}) ~> (calls[k].pc \in {"returned", "threw"})

(***************************************************************************)
(* The claims about the leaderboards of index.ts.                          *)
(***************************************************************************)
\* A list as fetchMemberLeaderboardRaw may serve it for leaderboard n: at most
\* leaderboardMax entries, in the direction of n.
Served(list, n) ==
    /\ Len(list) <= leaderboardMax
    /\ \A x, y \in 1..Len(list) :
          x < y => IF isLeaderboardReversed(n)
                   THEN list[x].value <= list[y].value
                   ELSE list[x].value >= list[y].value

\* C5: in every reachable state each cached leaderboard list, and each list that
\* fetchMemberLeaderboardRaw has returned to an update, has at most leaderboardMax
\* (100) entries and is sorted by its attribute: descending, or ascending when the
\* leaderboard is reversed.
C5_CachedListsBoundedAndSorted ==
    /\ \A n \in DOMAIN cachedRawLeaderboards : Served(cachedRawLeaderboards[n], n)
    /\ \A t \in TaskIds :
          tasks[t].pc \in {"reqHit", "rawHit"} => Served(tasks[t].seen, CurName(tasks[t]))

\* Both leaderboards are cached and full, the member A was put at the head of the
\* reversed one by its update, and the other one ranks two different values.
C5_FullListsAfterCommit ==
    /\ DOMAIN cachedRawLeaderboards = LeaderboardNames
    /\ \A n \in LeaderboardNames : Len(cachedRawLeaderboards[n]) = leaderboardMax
    /\ cachedRawLeaderboards["first_join"][1].uuid = "A"
    /\ cachedRawLeaderboards["first_join"][1].value
          < cachedRawLeaderboards["first_join"][leaderboardMax].value
    /\ cachedRawLeaderboards["kills_zombie"][1].value
          > cachedRawLeaderboards["kills_zombie"][leaderboardMax].value
    /\ \E t \in TaskIds : tasks[t].pc = "done" /\ tasks[t].uuid = "A"

\* The step of task t in which getApplicableAttributes keeps or drops an attribute.
DecidesAttribute(t) == tasks[t].pc = "reqHit" /\ tasks'[t] # tasks[t]

\* The step of task t in which the loop of lines 301-315 patches a leaderboard.
PatchesMirror(t) == tasks[t].pc = "rawHit" /\ tasks'[t] # tasks[t]

\* C6: getApplicableAttributes includes the attribute n with its value v if and
\* only if the leaderboard n has fewer than leaderboardMax (100) entries or v
\* strictly beats the value of its last place: above it, or below it when the
\* leaderboard is reversed.
C6_ApplicableIffNotFullOrBeats ==
    [][\A t \in TaskIds :
          DecidesAttribute(t) =>
             LET name == CurName(tasks[t])
                 v == tasks[t].attrs[name]
                 list == tasks[t].seen
                 full == Len(list) >= leaderboardMax
                 beats == IF isLeaderboardReversed(name)
                          THEN v < list[leaderboardMax].value
                          ELSE v > list[leaderboardMax].value
             IN (name \in DOMAIN tasks'[t].applicable) <=> (~full \/ beats)]_vars

Entities(list) == {list[x].uuid : x \in 1..Len(list)}
EntriesOf(list, uuid) == {x \in 1..Len(list) : list[x].uuid = uuid}

\* C7: when an update is about to patch a leaderboard, making its commit twice
\* (the upsert and the patch, with the same applicable attributes) leaves the
\* list with the entities it has after the first commit, with exactly one entry
\* of the member, and leaves the member's stored stats as the first commit wrote them.
C7_CommitTwiceIsCommitOnce ==
    \A t \in TaskIds :
        tasks[t].pc = "rawHit" =>
           LET rec == tasks[t]
               name == CurName(rec)
               key == <<rec.uuid, rec.profile>>
               once == PatchedLeaderboard(rec.seen, rec.uuid, rec.profile,
                                          rec.applicable[name], name)
               twice == PatchedLeaderboard(once, rec.uuid, rec.profile,
                                           rec.applicable[name], name)
               stored == Upserted(store, key, rec.applicable)
           IN /\ Entities(twice) = Entities(once)
              /\ Cardinality(EntriesOf(twice, rec.uuid)) = 1
              /\ Upserted(stored, key, rec.applicable)[key] = stored[key]

\* The case of C8: the leaderboard `name` is not reversed, `list` is full, the
\* member is not on it and its value v is above the value of the last place.
BeatsFullLeaderboard(name, list, uuid, v) ==
    /\ ~isLeaderboardReversed(name)
    /\ Len(list) >= leaderboardMax
    /\ uuid \notin Entities(list)
    /\ v > list[leaderboardMax].value

\* C8: when a leaderboard that is not reversed is full and a member that is not on
\* it has a value above the value of its last place, the attribute is applicable,
\* and the patch of the commit leaves a list of leaderboardMax (100) entries that
\* holds the member above every entry of a smaller value and no longer holds the
\* entry that was last.
C8_BeatingTheLastPlaceGetsOn ==
    [][\A t \in TaskIds :
          /\ DecidesAttribute(t) =>
                LET name == CurName(tasks[t])
                IN BeatsFullLeaderboard(name, tasks[t].seen, tasks[t].uuid, tasks[t].attrs[name])
                      => name \in DOMAIN tasks'[t].applicable
          /\ PatchesMirror(t) =>
                LET name == CurName(tasks[t])
                    list == tasks[t].seen
                    v == tasks[t].applicable[name]
                    new == cachedRawLeaderboards'[name]
                IN BeatsFullLeaderboard(name, list, tasks[t].uuid, v)
                      => /\ Len(new) = leaderboardMax
                         /\ \E x \in 1..Len(new) :
                               /\ new[x].uuid = tasks[t].uuid
                               /\ new[x].value = v
                               /\ \A y \in 1..Len(new) : new[y].value < v => x < y
                         /\ \A y \in 1..Len(new) : new[y] # list[leaderboardMax]]_vars

(***************************************************************************)
(* The claims about the gate and the queue of index.ts.                    *)
(***************************************************************************)
\* The updates that went past the gate of lines 273-276.
PassedGate == {t \in TaskIds : tasks[t].pc \notin {"none", "queued", "skipped"}}
GateKey(t) == <<tasks[t].profile, tasks[t].uuid>>

\* An update of this key went past the gate no more than stdTTL ago.
MarkedWithinTtl(key) ==
    \E u \in PassedGate : GateKey(u) = key /\ now - tasks[u].start <= stdTTL

\* C9: an update whose key was marked by an update that passed the gate within the
\* last stdTTL (3 minutes) is skipped, and the marker, the store and the cached
\* leaderboards stay as they are; any other update (the first one of its key, or
\* the first one after the marker expired) passes and marks the key for stdTTL;
\* so any two updates of one key that passed are more than stdTTL apart.
C9_GateSkipsWithinTtl ==
    /\ [](\A t, u \in PassedGate :
            (t # u /\ GateKey(t) = GateKey(u))
               => (tasks[t].start - tasks[u].start > stdTTL
                   \/ tasks[u].start - tasks[t].start > stdTTL))
    /\ [][\A t \in TaskIds :
            (tasks[t].pc = "queued" /\ tasks'[t].pc # "queued") =>
               IF MarkedWithinTtl(GateKey(t))
               THEN /\ tasks'[t].pc = "skipped"
                    /\ recentlyUpdated' = recentlyUpdated
                    /\ store' = store
                    /\ cachedRawLeaderboards' = cachedRawLeaderboards
               ELSE /\ tasks'[t].pc = "addStats"
                    /\ GateKey(t) \in DOMAIN recentlyUpdated'
                    /\ recentlyUpdated'[GateKey(t)] = now + stdTTL]_vars

\* One update of a key passed, a later one was skipped, and a third one passed
\* after the marker had expired.
C9_SkippedThenPassedAgain ==
    \E t, u, w \in TaskIds :
        /\ t < u /\ u < w
        /\ GateKey(t) = GateKey(u) /\ GateKey(u) = GateKey(w)
        /\ t \in PassedGate
        /\ tasks[u].pc = "skipped"
        /\ w \in PassedGate
        /\ tasks[w].start > tasks[t].start + stdTTL

OldAuctions(item) == IF item \in DOMAIN itemAuctions THEN itemAuctions[item] ELSE <<>>

\* The auctions of an item in the snapshot that previousAuctionIds does not hold,
\* in the order of the snapshot.
NewAuctions(item) ==
    SelectSeq(endedAuctions, LAMBDA id : id \notin previousAuctionIds /\ ItemOf(id) = item)

\* The new auctions of an item have distinct ids, none of which is in its auctions.
DistinctNewAuctions(item) ==
    LET new == NewAuctions(item)
    IN /\ \A x, y \in 1..Len(new) : x # y => new[x] # new[y]
       /\ \A x \in 1..Len(new) : new[x] \notin Range(OldAuctions(item))

Min(a, b) == IF a < b THEN a ELSE b

\* The last n elements of a sequence of n elements or more.
LastOf(seq, n) == [x \in 1..n |-> seq[Len(seq) - n + x]]

\* C11: in every reachable state of the auction loop, every item's auctions in the
\* Map updatedDatabaseAuctionItems, every item's auctions given to
\* updateItemAuction, and every item's auctions in the store are at most
\* historyMax (100) records.
C11_AuctionsAtMostHistoryMax ==
    /\ \A item \in DOMAIN updatedDatabaseAuctionItems :
          Len(updatedDatabaseAuctionItems[item]) <= historyMax
    /\ \A item \in DOMAIN writes : Len(writes[item].auctions) <= historyMax
    /\ \A item \in DOMAIN itemAuctions : Len(itemAuctions[item]) <= historyMax

\* An item's auctions were given to updateItemAuction full, without a new auction
\* of this iteration that the cut has dropped.
C11_FullAuctionsAfterCut ==
    /\ loopPc = "write"
    /\ \E item \in DOMAIN writes :
          /\ Len(writes[item].auctions) = historyMax
          /\ \E x \in 1..Len(NewAuctions(item)) :
                NewAuctions(item)[x] \notin Range(writes[item].auctions)

\* C12: when an iteration merges n new auctions of one item, with distinct ids
\* that its auctions do not hold, into auctions of length h, the merged auctions
\* are the last min(historyMax, h + n) records of the old auctions followed by
\* the new ones in the order of the snapshot.
C12_MergeKeepsTheLast ==
    [][(loopPc = "load" /\ loopPc' \in {"write", "sleep"})
         => \A item \in Items :
               (NewAuctions(item) # <<>> /\ DistinctNewAuctions(item))
                  => /\ item \in DOMAIN updatedDatabaseAuctionItems'
                     /\ updatedDatabaseAuctionItems'[item]
                          = LastOf(OldAuctions(item) \o NewAuctions(item),
                                   Min(historyMax,
                                       Len(OldAuctions(item)) + Len(NewAuctions(item))))]_vars

\* Two or more new auctions were merged into auctions that were not empty, and
\* the oldest records were dropped.
C12_MergedPastHistoryMax ==
    /\ loopPc = "write"
    /\ \A item \in DOMAIN writes : writes[item].state = "pending"
    /\ \E item \in Items :
          /\ OldAuctions(item) # <<>>
          /\ Len(NewAuctions(item)) >= 2
          /\ DistinctNewAuctions(item)
          /\ Len(OldAuctions(item)) + Len(NewAuctions(item)) > historyMax
          /\ updatedDatabaseAuctionItems[item]
               = LastOf(OldAuctions(item) \o NewAuctions(item), historyMax)

\* The updateItemAuction calls of this iteration that have not returned.
WritesInFlight == {item \in DOMAIN writes : writes[item].state = "pending"}

\* C13: at every moment at most poolSize (5) updateItemAuction calls of one
\* iteration are in flight, however many items the iteration has touched.
C13_AtMostPoolSizeWritesInFlight == Cardinality(WritesInFlight) <= poolSize

\* C14: a failure in an iteration (of the request for the snapshot, of
\* fetchItemsAuctions, or of an updateItemAuction call) does not end the loop.
C14_FailureDoesNotEndTheLoop == loopPc # "stopped"

(***************************************************************************)
(* The claims about the two jobs of index.ts.                              *)
(***************************************************************************)
\* C15: when the store operation for one leaderboard name fails in a pass of the
\* prune job or of the warm job, the pass goes on: no pass ends with names that
\* it has not processed.
C15_PassGoesOnAfterFailure ==
    \A j \in JobNames : jobs[j].pc = "aborted" => jobs[j].left = <<>>

\* value is strictly worse than the requirement in the direction of the leaderboard
WorseThan(value, requirement, reversed) == Before(requirement, value, reversed)

\* C16: for a name whose requirement is not null, the updateMany of the prune job
\* removes the attribute from the stats of every document whose value is strictly
\* worse than the requirement, and from no other document.
C16_PruneRemovesTheWorse ==
    [][(jobs["prune"].pc = "unset" /\ jobs'["prune"].pc \in {"sleep", "finished"})
         => LET name == jobs["prune"].name
                requirement == jobs["prune"].requirement[1]
            IN \A k \in DOMAIN store :
                  name \in DOMAIN store[k]
                     => (name \notin DOMAIN store'[k]
                           <=> WorseThan(store[k][name], requirement,
                                         isLeaderboardReversed(name)))]_vars

(***************************************************************************)
(* The claims about the matchers of stat names.                            *)
(***************************************************************************)
\* chars is m followed by something; chars is something followed by m.
HasPrefix(chars, m) == \E n \in 0..Len(chars) : SubSeq(chars, 1, n) = m
HasSuffix(chars, m) == \E n \in 0..Len(chars) : SubSeq(chars, n + 1, Len(chars)) = m

\* chars without its first n characters
Rest(chars, n) == [x \in 1..Len(chars) - n |-> chars[x + n]]

\* The name matches a matcher: at its start when the matcher ends with '_', at
\* its end when the matcher begins with '_', or as a whole.
NameMatches(chars, m) ==
    \/ m[Len(m)] = "_" /\ HasPrefix(chars, m)
    \/ m[1] = "_" /\ HasSuffix(chars, m)
    \/ chars = m
CategoryMatches(chars, c) ==
    \E x \in 1..Len(statCategories[c].matchers) :
        NameMatches(chars, Chars(statCategories[c].matchers[x]))

\* C17: when a stat name starts with a matcher of a category that ends with '_',
\* and no earlier category matches the name, categorizeStat returns that category
\* and the rest of the name after the matcher (deaths_void: deaths, void;
\* collection_wheat: collection, wheat); when no matcher of any category matches
\* the name, it returns 'misc' and the whole name.
C17_CategoryAndRestOfName ==
    statPc = "categorized" =>
        LET chars == Chars(statName)
        IN /\ \A c \in 1..Len(statCategories) :
                 \A x \in 1..Len(statCategories[c].matchers) :
                    LET m == Chars(statCategories[c].matchers[x])
                    IN (/\ m[Len(m)] = "_"
                        /\ HasPrefix(chars, m)
                        /\ \A e \in 1..c - 1 : ~CategoryMatches(chars, e))
                          => statResult = [category |-> statCategories[c].category,
                                           name |-> <<Rest(chars, Len(m))>>]
           /\ (\A c \in 1..Len(statCategories) : ~CategoryMatches(chars, c))
                 => statResult = [category |-> "misc", name |-> <<chars>>]
           /\ statName = "deaths_void"
                 => statResult = [category |-> "deaths", name |-> <<Chars("void")>>]
           /\ statName = "collection_wheat"
                 => statResult = [category |-> "collection", name |-> <<Chars("wheat")>>]
           /\ statName = "totally_unknown_stat"
                 => statResult = [category |-> "misc",
                                  name |-> <<Chars("totally_unknown_stat")>>]

\* categorizeStat was called with 'deaths_void' and returned deaths and void.
C17_DeathsVoidCategorized ==
    /\ statPc = "categorized"
    /\ statName = "deaths_void"
    /\ statResult = [category |-> "deaths", name |-> <<Chars("void")>>]

\* C18: isLeaderboardReversed(name) is true if and only if name is 'first_join'
\* or ends with '_best_time' or ends with '_best_time_2'; it is true for
\* 'first_join' and false for 'kills_zombie'.
C18_ReversedIffFirstJoinOrBestTime ==
    statPc = "reversed" =>
        /\ statResult.reversed
              <=> \/ statName = "first_join"
                  \/ HasSuffix(Chars(statName), Chars("_best_time"))
                  \/ HasSuffix(Chars(statName), Chars("_best_time_2"))
        /\ statName = "first_join" => statResult.reversed
        /\ statName = "kills_zombie" => ~statResult.reversed

\* isLeaderboardReversed was called with a name that ends with '_best_time_2' and
\* is not that matcher, and returned true.
C18_BestTime2IsReversed ==
    /\ statPc = "reversed"
    /\ statName = "dragon_best_time_2"
    /\ statResult.reversed

(***************************************************************************)
(* The claims about the cached leaderboards and the store of index.ts.     *)
(***************************************************************************)
\* In list `leaderboard` fewer than leaderboardMax items of other members come
\* before value or are equal to it: the member's item with this value is among
\* the first leaderboardMax wherever the sort puts it.
RanksInTop(leaderboard, uuid, value, reversed) ==
    Cardinality({x \in 1..Len(leaderboard) :
                    /\ leaderboard[x].uuid # uuid
                    /\ ~Before(value, leaderboard[x].value, reversed)}) < leaderboardMax

\* C19: when updateDatabaseMember ends after its upsert, then for every attribute
\* it has written the cached leaderboard of the attribute holds the member's item
\* with the written value, if that value ranks among the first leaderboardMax
\* (100) of the list; also when updates of other members run in between.
C19_CachedListHoldsWrittenValue ==
    [][\A t \in TaskIds :
          (tasks[t].pc \in RunningPcs /\ tasks'[t].pc = "done")
             => \A name \in DOMAIN tasks[t].applicable :
                   /\ name \in DOMAIN cachedRawLeaderboards'
                   /\ RanksInTop(cachedRawLeaderboards'[name], tasks[t].uuid,
                                 tasks[t].applicable[name], isLeaderboardReversed(name))
                        => \E x \in 1..Len(cachedRawLeaderboards'[name]) :
                              cachedRawLeaderboards'[name][x]
                                 = Item(tasks[t].uuid, tasks[t].profile,
                                        tasks[t].applicable[name])]_vars

\* C20: in every reachable state, for every item of a cached leaderboard the
\* store holds a document of the item's member whose stats have the attribute of
\* that leaderboard.
C20_CachedItemsAreStored ==
    \A name \in DOMAIN cachedRawLeaderboards :
        \A x \in 1..Len(cachedRawLeaderboards[name]) :
            \E k \in DOMAIN store :
                /\ k[1] = cachedRawLeaderboards[name][x].uuid
                /\ name \in DOMAIN store[k]

(***************************************************************************)
(* More claims about the gate of index.ts.                                 *)
(***************************************************************************)
\* Update t has gone past the gate in this step.
PassesGateNow(t) == tasks[t].pc = "queued" /\ tasks'[t].pc = "addStats"

\* C21, as it was stated: of two updates of one key that wait on the queue
\* together, both may go past the gate: when one has passed and its marker has
\* not expired, the queue can still start the other one and let it pass.
C21_SecondMayPassToo ==
    \A t, u \in TaskIds :
        (/\ t \in PassedGate
         /\ now - tasks[t].start <= stdTTL
         /\ u \in Queued
         /\ GateKey(u) = GateKey(t)
         /\ \A w \in Queued : u <= w
         /\ QueueHasRoom)
           => ENABLED (Dispatch(u) /\ tasks'[u].pc = "addStats")

\* C21, amended: the gate reads and sets the marker in one step.  When an update
\* passes the gate, every update of its key that waits on the queue finds the
\* marker from that step on; such an update passes only after the marker has
\* expired, so two updates of one key that both passed did so more than stdTTL
\* (3 minutes) apart.
C21_BothPassOnlyAfterExpiry ==
    /\ [][\A t, u \in TaskIds :
            (t # u /\ PassesGateNow(t) /\ tasks[u].pc = "queued"
                   /\ GateKey(u) = GateKey(t))
               => /\ IsRecentlyUpdated(GateKey(u))'
                  /\ tasks'[u].pc = "queued"]_vars
    /\ [][\A t, u \in TaskIds :
            (t # u /\ PassesGateNow(u) /\ t \in PassedGate /\ GateKey(u) = GateKey(t))
               => now - tasks[t].start > stdTTL]_vars

\* An update has passed the gate in this tick of the clock, and the next update
\* of the same key was skipped.
C21_NextUpdateSkipped ==
    \E t, u \in TaskIds :
        /\ u = t + 1
        /\ GateKey(u) = GateKey(t)
        /\ tasks[t].pc = "addStats"
        /\ tasks[t].start = now
        /\ tasks[u].pc = "skipped"

(***************************************************************************)
(* More claims about the auction loop of hypixel.ts.                       *)
(***************************************************************************)
\* C22: at the end of every iteration previousAuctionIds is the set of all the
\* ids of the snapshot of that iteration, so that an auction of that snapshot is
\* not taken as new in the next iteration.
C22_PreviousIdsAreTheSnapshot ==
    loopPc = "sleep" => previousAuctionIds = Range(endedAuctions)

\* No id is twice in the auctions.
NoRepeatedId(auctions) ==
    \A x, y \in 1..Len(auctions) : x # y => auctions[x] # auctions[y]

\* C23: no item's auctions hold two records with the same id (the store starts
\* without any): in the Map of an iteration, in what is given to
\* updateItemAuction, and in the store; also when an id is twice in one snapshot
\* or comes again in a later one.
C23_NoIdTwiceInAuctions ==
    /\ \A item \in DOMAIN updatedDatabaseAuctionItems :
          NoRepeatedId(updatedDatabaseAuctionItems[item])
    /\ \A item \in DOMAIN writes : NoRepeatedId(writes[item].auctions)
    /\ \A item \in DOMAIN itemAuctions : NoRepeatedId(itemAuctions[item])

\* A new auction was twice in the snapshot one after the other, and the item's
\* auctions hold it.
C23_IdTwiceInSnapshotMergedOnce ==
    /\ loopPc = "write"
    /\ \E x \in 1..Len(endedAuctions) - 1 :
          /\ endedAuctions[x] = endedAuctions[x + 1]
          /\ endedAuctions[x] \notin previousAuctionIds
          /\ ItemOf(endedAuctions[x]) \in DOMAIN updatedDatabaseAuctionItems
          /\ endedAuctions[x] \in Range(updatedDatabaseAuctionItems[ItemOf(endedAuctions[x])])

\* C24: the delay the loop hands to its timer is never negative: it is
\* max(0, 60 s - endedAgo + 10 s), also for a snapshot older than 70 seconds.
C24_RefetchDelayNotNegative ==
    loopPc = "sleep" =>
        /\ refetchIn >= 0
        /\ refetchIn = (IF refetchBase - endedAgo + refetchMargin > 0
                        THEN refetchBase - endedAgo + refetchMargin ELSE 0)

\* C30: over the whole run an auction is pushed onto its item's auctions at most
\* once, also when it is in three snapshots or more one after the other and the
\* cut of lines 422-423 has dropped its record in between.
C30_PushedAtMostOnce ==
    [][loopPc = "load" =>
          LET fetched == FetchedItemsAuctions(NewAuctionItemIds(endedAuctions, previousAuctionIds))
              ids == PushedAuctions(fetched, endedAuctions, previousAuctionIds)
          IN /\ NoRepeatedId(ids)
             /\ \A x \in 1..Len(ids) : ids[x] \notin pushes]_vars

(***************************************************************************)
(* More claims about the matchers of stat names.                           *)
(***************************************************************************)
\* The matchers as the specification words them: a matcher that begins with '_'
\* matches the names that start with it, one that ends with '_' the names that
\* end with it, any matcher the name equal to it.
NameMatchesAsStated(chars, m) ==
    \/ m[1] = "_" /\ HasPrefix(chars, m)
    \/ m[Len(m)] = "_" /\ HasSuffix(chars, m)
    \/ chars = m

\* What the three functions have returned is what Matches(name, matcher) gives
\* for their tables: the first category with a matcher that matches, or misc; the
\* first unit with one, or null; reversed when there is one in the reversed set.
TablesAgreeWith(Matches(_, _)) ==
    LET chars == Chars(statName)
        SomeMatches(matchers) ==
            \E x \in 1..Len(matchers) : Matches(chars, Chars(matchers[x]))
    IN /\ statPc = "categorized" =>
             \E c \in 1..Len(statCategories) :
                /\ statResult.category = statCategories[c].category
                /\ statCategories[c].none \/ SomeMatches(statCategories[c].matchers)
                /\ \A e \in 1..c - 1 : ~SomeMatches(statCategories[e].matchers)
       /\ statPc = "unit" =>
             \/ /\ statResult.unit = Null
                /\ \A u \in 1..Len(statUnits) : ~SomeMatches(statUnits[u].statMatchers)
             \/ \E u \in 1..Len(statUnits) :
                   /\ statResult.unit = statUnits[u].unitName
                   /\ SomeMatches(statUnits[u].statMatchers)
                   /\ \A e \in 1..u - 1 : ~SomeMatches(statUnits[e].statMatchers)
       /\ statPc = "reversed" => (statResult.reversed <=> SomeMatches(reversedLeaderboards))

\* C25, as stated: in the tables of categories, units and reversed leaderboards a
\* matcher whose first character is '_' matches exactly the names that start with
\* it, and one whose last character is '_' exactly the names that end with it.
C25_UnderscoreFirstMatchesStart ==
    TablesAgreeWith(NameMatchesAsStated)

\* C25, amended: a matcher whose first character is '_' matches exactly the names
\* that end with it, one whose last character is '_' exactly the names that start
\* with it, and any other matcher only the name equal to it.
C25_UnderscoreFirstMatchesEnd ==
    TablesAgreeWith(NameMatches)

\* getStatUnit was called with a name that ends with '_best_time' and does not
\* start with it, and returned time.
C25_UnitOfNameThatEndsWithMatcher ==
    /\ statPc = "unit"
    /\ statName = "dragon_best_time"
    /\ statResult.unit = "time"

(***************************************************************************)
(* More claims about the caches of hypixel.ts.                             *)
(***************************************************************************)
\* C26: when a refresh of a cache has succeeded, the expiry that was stored is
\* the time of the refresh plus the TTL of the cache and so lies in the future,
\* and a get that follows at once finds the cache fresh and returns the cached
\* value without a fetch, whatever lastUpdated the response carries.
C26_FreshRightAfterRefresh ==
    [][\A k \in CallerIds :
          (calls[k].pc = "fetch" /\ calls'[k].pc = "returned")
             => LET c == CurCache(k)
                    ttl == IF c = "election" THEN electionTtl ELSE itemListTtl
                IN /\ nextUpdate'[c] = now' + ttl
                   /\ nextUpdate'[c] > now'
                   /\ IsFresh(c)']_vars

(***************************************************************************)
(* More claims about the store and the cached leaderboards of index.ts.    *)
(***************************************************************************)
\* In store st the document `key` has a place among the first leaderboardMax of
\* the full leaderboard `name`: at least leaderboardMax documents have the
\* attribute, and fewer than leaderboardMax of the others come before the value
\* of `key` (a tie with the last place is a place).
HoldsPlace(st, key, name) ==
    LET docs == {k \in DOMAIN st : name \in DOMAIN st[k]}
    IN /\ key \in docs
       /\ Cardinality(docs) >= leaderboardMax
       /\ Cardinality({k \in docs \ {key} :
                          Before(st[k][name], st[key][name], isLeaderboardReversed(name))})
             < leaderboardMax

\* C27: when the store runs the upsert of an update of a member that holds a
\* place among the first leaderboardMax (100) of a full leaderboard, the last
\* place or a tie with it included, and the update brings the same value of that
\* attribute, the member's stored stats still have the attribute afterwards.
C27_PlaceHolderKeepsAttribute ==
    [][\A t \in TaskIds :
          (tasks[t].pc = "upsertSent" /\ tasks'[t].pc = "upsertApplied")
             => LET key == <<tasks[t].uuid, tasks[t].profile>>
                IN \A name \in DOMAIN tasks[t].attrs :
                      (/\ HoldsPlace(store, key, name)
                       /\ tasks[t].attrs[name] = store[key][name])
                         => name \in DOMAIN store'[key]]_vars

\* C28: once cachedRawLeaderboards has a list for a leaderboard, no call of
\* fetchMemberLeaderboardRaw sends a query for that leaderboard to the store, and
\* the list is never removed and is replaced only by the patch of an update
\* (lines 304-314), not loaded again from the store.
C28_CachedListOnlyPatched ==
    [][\A name \in DOMAIN cachedRawLeaderboards :
          /\ \A t \in TaskIds :
                (/\ tasks'[t].pc \in {"reqQuery", "rawQuery"}
                 /\ tasks'[t] # tasks[t]
                 /\ tasks[t].pc \notin {"reqQuery", "rawQuery"})
                   => CurName(tasks'[t]) # name
          /\ name \in DOMAIN cachedRawLeaderboards'
          /\ cachedRawLeaderboards'[name] # cachedRawLeaderboards[name]
                => \E t \in TaskIds :
                      /\ tasks[t].pc = "rawHit"
                      /\ CurName(tasks[t]) = name
                      /\ tasks'[t] # tasks[t]]_vars

\* C29: the patch of an update of player P in profile X (lines 301-315) never
\* takes the item of the same player in another profile Y out of a cached
\* leaderboard: the item is in the new list, unless the new list is full of items
\* that do not come after it.
C29_OtherProfileStaysInCachedList ==
    [][\A t \in TaskIds :
          (tasks[t].pc = "rawHit" /\ tasks'[t] # tasks[t])
             => LET name == CurName(tasks[t])
                    old == cachedRawLeaderboards[name]
                    new == cachedRawLeaderboards'[name]
                    reversed == isLeaderboardReversed(name)
                IN \A x \in 1..Len(old) :
                      (/\ old[x].uuid = tasks[t].uuid
                       /\ old[x].profile # tasks[t].profile)
                         => \/ \E y \in 1..Len(new) : new[y] = old[x]
                            \/ Cardinality({y \in 1..Len(new) :
                                   ~Before(old[x].value, new[y].value, reversed)})
                                  >= leaderboardMax]_vars

(***************************************************************************)
(* The claim about a failed update and the gate of index.ts.               *)
(***************************************************************************)
\* Where an update is before its upsert has run: the calls of constants (stat
\* registration), getApplicableAttributes, and updateOne on its way.
BeforeUpsertPcs == {"addStats", "reqHit", "reqQuery", "reqReply", "upsertSent"}

\* Update t fails in this step, before its upsert has run.
FailsNow(t) == tasks[t].pc \in BeforeUpsertPcs /\ tasks'[t].pc = "failed"

\* C31, as stated, for what it says of the mirrors: when the only update that
\* went past the gate has failed before its upsert, the cached leaderboards are as
\* they were before it, that is, there is none.
C31_FailedUpdateLeavesNoCachedList ==
    (/\ store = Empty
     /\ \E t \in TaskIds :
           /\ tasks[t].pc = "failed"
           /\ \A u \in TaskIds \ {t} : tasks[u].pc \in {"none", "queued", "skipped"})
       => cachedRawLeaderboards = Empty

\* C31, amended: the key is put into recentlyUpdated in the step in which the
\* update passes the gate, before the store or the cached leaderboards are touched;
\* a failure before the upsert leaves recentlyUpdated, the store and the cached
\* leaderboards as they are; an update of the key that the queue starts no more
\* than stdTTL (3 minutes) after the failed one passed the gate is skipped and
\* touches nothing; and an update that has not run its upsert changes a cached
\* leaderboard only by setting the list that the store has answered to its query:
\* while nothing is stored, the cached lists are empty.
C31_MarkerOutlivesFailure ==
    /\ [][\A t \in TaskIds :
            /\ PassesGateNow(t)
                  => /\ GateKey(t) \in DOMAIN recentlyUpdated'
                     /\ recentlyUpdated'[GateKey(t)] = now + stdTTL
                     /\ UNCHANGED <<store, cachedRawLeaderboards>>
            /\ FailsNow(t)
                  => /\ UNCHANGED <<recentlyUpdated, store, cachedRawLeaderboards>>
                     /\ IsRecentlyUpdated(GateKey(t))' <=> IsRecentlyUpdated(GateKey(t))
            /\ \A u \in TaskIds :
                  (/\ tasks[t].pc = "failed"
                   /\ GateKey(u) = GateKey(t)
                   /\ now - tasks[t].start <= stdTTL
                   /\ tasks[u].pc = "queued" /\ tasks'[u].pc # "queued")
                     => /\ tasks'[u].pc = "skipped"
                        /\ UNCHANGED <<recentlyUpdated, store, cachedRawLeaderboards>>
            /\ (/\ tasks[t].pc \in BeforeUpsertPcs
                /\ tasks'[t].pc \in BeforeUpsertPcs \cup {"failed"}
                /\ tasks'[t] # tasks[t])
                  => /\ store' = store
                     /\ \A name \in DOMAIN cachedRawLeaderboards' :
                           \/ /\ name \in DOMAIN cachedRawLeaderboards
                              /\ cachedRawLeaderboards'[name] = cachedRawLeaderboards[name]
                           \/ /\ tasks[t].pc = "reqReply"
                              /\ name = CurName(tasks[t])
                              /\ cachedRawLeaderboards'[name] = tasks[t].seen]_vars
    /\ [](store = Empty => \A name \in DOMAIN cachedRawLeaderboards :
                               cachedRawLeaderboards[name] = <<>>)

\* An update failed before its upsert, having loaded a leaderboard, and the next
\* update of its key was skipped while the marker was in force.
C31_SkippedAfterFailedUpdate ==
    \E t, u \in TaskIds :
        /\ t < u
        /\ GateKey(u) = GateKey(t)
        /\ tasks[t].pc = "failed"
        /\ tasks[u].pc = "skipped"
        /\ store = Empty
        /\ cachedRawLeaderboards # Empty
        /\ now - tasks[t].start <= stdTTL

====
